---- MODULE Spec2Model ----
(***************************************************************************)
(* A model of the NFG fitness site (backend/app.py): the document store's  *)
(* collections, the admin CRUD handlers and the public query handlers.     *)
(*                                                                         *)
(* Text is modelled as a sequence of one-character strings, so that        *)
(* slugify, strip, the case-insensitive regex search and the store's       *)
(* string ordering are computed as the code computes them.                 *)
(*                                                                         *)
(* A request is a process: every round trip to the store is one atomic     *)
(* step, and the steps of the requests in flight interleave.               *)
(*                                                                         *)
(* Workout documents carry the fields the modelled handlers read or write  *)
(* (name, slug, level, body_part, body_parts, style, tags, images,         *)
(* youtube_id, is_favorite, rating, created_at); muscle_image, info and    *)
(* tips are written by create/edit and read by no query, and are left out. *)
(***************************************************************************)
EXTENDS Integers, Sequences, FiniteSets, TLC

VARIABLES
    workouts,       \* db.workouts:       _id -> document
    styles,         \* db.styles:         _id -> document
    programs,       \* db.programs:       _id -> document
    home_plans,     \* db.home_plans:     _id -> document
    program_weeks,  \* db.program_weeks:  _id -> document
    program_items,  \* db.program_items:  _id -> document
    nextId,         \* the next fresh ObjectId
    now,            \* the clock read by datetime.utcnow()
    started,        \* number of admin POST requests received so far
    reqs,           \* worker -> the request it is serving (or served last)
    sessions,       \* client -> its session cookie says it is the admin
    failed_logins   \* FAILED_LOGINS: client address -> times of its failed logins

vars == <<workouts, styles, programs, home_plans, program_weeks, program_items,
          nextId, now, started, reqs, sessions, failed_logins>>

store == <<workouts, styles, programs, home_plans, program_weeks, program_items>>

-----------------------------------------------------------------------------
(* Bounds of the model *)

\* requests received in one behaviour
MaxRequests == 3
\* last tick of the clock
MaxTime == 1

\* the workers (threads or processes) that serve requests concurrently
\* the clients (browsers) and their addresses
Clients == {"c1", "c2"}

Workers == {"w1", "w2"}
WorkerNo(w) == IF w = "w1" THEN 1 ELSE 2
\* the identifiers a request on a collection can name: those of its documents, and
\* one that is not in it
Targets(coll) == DOMAIN coll \cup {nextId}

-----------------------------------------------------------------------------
(* Text *)

\* the letters
UpperLetters ==
    <<"A", "B", "C", "D", "E", "F", "G", "H", "I", "J", "K", "L", "M", 
      "N", "O", "P", "Q", "R", "S", "T", "U", "V", "W", "X", "Y", "Z">>
LowerLetters ==
    <<"a", "b", "c", "d", "e", "f", "g", "h", "i", "j", "k", "l", "m", 
      "n", "o", "p", "q", "r", "s", "t", "u", "v", "w", "x", "y", "z">>

Digits == <<"0", "1", "2", "3", "4", "5", "6", "7", "8", "9">>

\* the position of c in the list
IndexIn(list, c) == CHOOSE i \in DOMAIN list : list[i] = c
In(list, c) == \E i \in DOMAIN list : list[i] = c

\* the characters of the model's texts, with their code points
Code(c) ==
    IF In(UpperLetters, c) THEN 64 + IndexIn(UpperLetters, c)
    ELSE IF In(LowerLetters, c) THEN 96 + IndexIn(LowerLetters, c)
    ELSE IF In(Digits, c) THEN 47 + IndexIn(Digits, c)
    ELSE CASE c = "\n" -> 10
           [] c = " "  -> 32
           [] c = ","  -> 44
           [] c = "-"  -> 45
           [] c = "."  -> 46
           [] c = "/"  -> 47
           [] c = "_"  -> 95

\* str.lower() on one character
Lower(c) ==
    IF \E i \in DOMAIN UpperLetters : UpperLetters[i] = c
    THEN LowerLetters[CHOOSE i \in DOMAIN UpperLetters : UpperLetters[i] = c]
    ELSE c

\* str.lower()
LowerStr(s) == [i \in 1..Len(s) |-> Lower(s[i])]

\* the characters str.strip() removes
IsSpace(c) == c \in {" ", "\n"}

RECURSIVE LStrip(_)
LStrip(s) == IF s # <<>> /\ IsSpace(Head(s)) THEN LStrip(Tail(s)) ELSE s

RECURSIVE RStrip(_)
RStrip(s) ==
    IF s # <<>> /\ IsSpace(s[Len(s)]) THEN RStrip(SubSeq(s, 1, Len(s) - 1)) ELSE s

\* str.strip()
Strip(s) == RStrip(LStrip(s))

\* the text is a decimal numeral
IsDigits(t) == t # <<>> /\ \A k \in DOMAIN t : In(Digits, t[k])

RECURSIVE DecimalOf(_)
DecimalOf(t) ==
    IF t = <<>> THEN 0
    ELSE 10 * DecimalOf(SubSeq(t, 1, Len(t) - 1)) + IndexIn(Digits, t[Len(t)]) - 1

\* float(x or 0) raises ValueError: of the texts of the model, a numeral with
\* blanks around it is a number, any other text but the empty one is not
FloatRaises(x) == x # <<>> /\ ~IsDigits(Strip(x))

\* float(x or 0), when it does not raise
Float(x) == IF x = <<>> \/ FloatRaises(x) THEN 0 ELSE DecimalOf(Strip(x))

\* the class [a-z0-9] of slugify's pattern
IsSlugChar(c) == In(LowerLetters, c) \/ In(Digits, c)

\* re.sub(r"[^a-z0-9]+", "-", s): every maximal run outside the class becomes "-"
RECURSIVE SubRuns(_, _)
SubRuns(s, inRun) ==
    IF s = <<>> THEN <<>>
    ELSE IF IsSlugChar(Head(s)) THEN <<Head(s)>> \o SubRuns(Tail(s), FALSE)
    ELSE IF inRun THEN SubRuns(Tail(s), TRUE)
    ELSE <<"-">> \o SubRuns(Tail(s), TRUE)

RECURSIVE LStripHyphen(_)
LStripHyphen(s) == IF s # <<>> /\ Head(s) = "-" THEN LStripHyphen(Tail(s)) ELSE s

RECURSIVE RStripHyphen(_)
RStripHyphen(s) ==
    IF s # <<>> /\ s[Len(s)] = "-" THEN RStripHyphen(SubSeq(s, 1, Len(s) - 1)) ELSE s

slugify(text) == RStripHyphen(LStripHyphen(SubRuns(LowerStr(text), FALSE)))

\* the separators of _split_list's pattern [\n,]+
IsSep(c) == c \in {"\n", ","}

RECURSIVE LStripSep(_)
LStripSep(s) == IF s # <<>> /\ IsSep(Head(s)) THEN LStripSep(Tail(s)) ELSE s

\* re.split(r"[\n,]+", s): the pieces between the runs of separators
RECURSIVE SplitRuns(_, _)
SplitRuns(s, cur) ==
    IF s = <<>> THEN <<cur>>
    ELSE IF IsSep(Head(s)) THEN <<cur>> \o SplitRuns(LStripSep(Tail(s)), <<>>)
    ELSE SplitRuns(Tail(s), Append(cur, Head(s)))

_split_list(text) ==
    IF text = <<>> THEN <<>>
    ELSE SelectSeq([i \in 1..Len(SplitRuns(text, <<>>)) |-> Strip(SplitRuns(text, <<>>)[i])],
                   LAMBDA p : p # <<>>)

-----------------------------------------------------------------------------
(* The document store *)

\* (the same with no unique index)
NoUniqueIndex(coll, id, slug) == TRUE

\* create_index([("slug", 1)], unique=True): the write of `slug` to document `id`
\* of `coll` is accepted iff no other document of the collection has that slug
UniqueSlugIndex(coll, id, slug) ==
    \A j \in DOMAIN coll \ {id} : coll[j].slug # slug

\* find_one({"slug": slug, "_id": {"$ne": id}})
FindSlugOther(coll, slug, id) ==
    \E j \in DOMAIN coll \ {id} : coll[j].slug = slug

\* insert_one(doc), the fresh ObjectId being `id`
Insert(coll, id, doc) == coll @@ (id :> doc)

\* update_one({"_id": id}, {"$set": update}): no document matched, nothing changes
SetFields(coll, id, update) ==
    IF id \notin DOMAIN coll THEN coll
    ELSE [coll EXCEPT ![id] =
            [f \in DOMAIN @ \cup DOMAIN update |->
                IF f \in DOMAIN update THEN update[f] ELSE @[f]]]

\* delete_many({"_id": {"$in": ids}})
Delete(coll, ids) == [j \in DOMAIN coll \ ids |-> coll[j]]

NoDoc == <<>>

-----------------------------------------------------------------------------
(* Requests *)

\* the request a worker is serving: the handler (op), its position (pc), the
\* identifier of the URL, the submitted form, the handler's locals (slug, doc),
\* and, once pc = "done", the response, the flashed message and the exception the
\* store raised in it
Req(op, pc, id, form, slug, doc, resp, flash) ==
    [op |-> op, pc |-> pc, id |-> id, form |-> form, slug |-> slug, doc |-> doc,
     resp |-> resp, flash |-> flash, raised |-> "none"]

Idle == Req("none", "done", 0, NoDoc, <<>>, NoDoc, "none", "none")

\* (the same letting every client in)
NoLoginRequired(c) == TRUE

\* @login_required: the session of the client says it is the admin
login_required(c) == sessions[c]

\* a request is taken by the first worker that is free
Accept(w) ==
    /\ reqs[w].pc = "done"
    /\ started < MaxRequests
    /\ \A v \in Workers : reqs[v].pc = "done" => WorkerNo(w) <= WorkerNo(v)

\* a request to an admin route that gets past @login_required
Free(w) ==
    /\ Accept(w)
    /\ \E c \in Clients : login_required(c)

\* the handler returns: its locals are gone, the response is what is left
Done(r, resp, flash) ==
    [r EXCEPT !.pc = "done", !.form = NoDoc, !.doc = NoDoc, !.resp = resp, !.flash = flash]

\* except Exception as e: flash(f"Error: {e}") and the form again
Caught(r, exc) == [Done(r, "form", "error") EXCEPT !.raised = exc]

\* render_template(..., data=request.form): the form again with what was submitted
Rendered(r, flash) ==
    [r EXCEPT !.pc = "done", !.doc = NoDoc, !.resp = "form", !.flash = flash]

\* an exception raised while the form is read: the errorhandler(500) page (the
\* record keeps the form that raised it)
Raised(r, exc) ==
    [r EXCEPT !.pc = "done", !.doc = NoDoc, !.resp = "500", !.raised = exc]

\* no except clause around the store call: the errorhandler(500) page
Uncaught(r, exc) == [Done(r, "500", "none") EXCEPT !.raised = exc]

-----------------------------------------------------------------------------
(* Media fields of the workout form: youtube_id and the image slots *)

\* Python's None
None == <<"None">>

\* request.form.get(key) / request.files.get(key): None without the field
FormGet(form, key) == IF key \in DOMAIN form THEN form[key] ELSE None

\* x or y
Or(x, y) == IF x # None /\ x # <<>> THEN x ELSE y

\* the class [A-Za-z0-9_-] of _YT_PAT
IdChars ==
    {UpperLetters[i] : i \in DOMAIN UpperLetters}
    \cup {LowerLetters[i] : i \in DOMAIN LowerLetters}
    \cup {"0", "1", "2", "3", "4", "5", "6", "7", "8", "9", "_", "-"}
IsIdChar(c) == c \in IdChars

\* the alternatives of the optional group of _YT_PAT
_YT_PREFIXES ==
    { <<"y", "o", "u", "t", "u", ".", "b", "e", "/">>,
      <<"y", "o", "u", "t", "u", "b", "e", ".", "c", "o", "m", "/", "w", "a", "t", "c", "h", "?", "v", "=">>,
      <<"y", "o", "u", "t", "u", "b", "e", ".", "c", "o", "m", "/", "e", "m", "b", "e", "d", "/">>,
      <<"y", "o", "u", "t", "u", "b", "e", ".", "c", "o", "m", "/", "s", "h", "o", "r", "t", "s", "/">> }

\* the length of the captured group
_YT_ID_LEN == 11

\* ([A-Za-z0-9_-]{11}) at position p of s
IdRun(s, p) ==
    /\ p + _YT_ID_LEN - 1 <= Len(s)
    /\ \A k \in p..(p + _YT_ID_LEN - 1) : IsIdChar(s[k])

\* the literal `pre` at position p of s
LiteralAt(s, p, pre) ==
    /\ p + Len(pre) - 1 <= Len(s)
    /\ SubSeq(s, p, p + Len(pre) - 1) = pre

\* the match of _YT_PAT that starts at position p: group 1, or None. The optional
\* group is tried first, then the capture alone.
_YT_MatchAt(s, p) ==
    LET pres == {pre \in _YT_PREFIXES : LiteralAt(s, p, pre) /\ IdRun(s, p + Len(pre))}
    IN  IF pres # {}
        THEN LET pre == CHOOSE pre \in pres : TRUE
             IN  SubSeq(s, p + Len(pre), p + Len(pre) + _YT_ID_LEN - 1)
        ELSE IF IdRun(s, p) THEN SubSeq(s, p, p + _YT_ID_LEN - 1)
        ELSE None

\* _YT_PAT.search(s): group 1 of the leftmost match from position p on, or None
RECURSIVE _YT_Search(_, _)
_YT_Search(s, p) ==
    IF p > Len(s) THEN None
    ELSE IF _YT_MatchAt(s, p) # None THEN _YT_MatchAt(s, p)
    ELSE _YT_Search(s, p + 1)

\* (the same keeping the trimmed value)
_extract_youtube_id_raw(val) ==
    IF val = None \/ val = <<>> THEN None ELSE Strip(val)

\* _extract_youtube_id
_extract_youtube_id(val) ==
    IF val = None \/ val = <<>> THEN None
    ELSE LET m == _YT_Search(Strip(val), 1)
         IN  IF m # None THEN m ELSE Strip(val)

ALLOWED_IMAGE_EXTS == {<<"p", "n", "g">>, <<"j", "p", "g">>, <<"j", "p", "e", "g">>, <<"g", "i", "f">>, <<"w", "e", "b", "p">>}

\* filename.rsplit(".", 1)[1]: what follows the last "."
RECURSIVE AfterLastDot(_)
AfterLastDot(filename) ==
    IF filename[Len(filename)] = "." THEN <<>>
    ELSE AfterLastDot(SubSeq(filename, 1, Len(filename) - 1)) \o <<filename[Len(filename)]>>

\* (the same with every extension allowed)
AnyImage(filename) == \E k \in DOMAIN filename : filename[k] = "."

\* _allowed_image
_allowed_image(filename) ==
    /\ \E k \in DOMAIN filename : filename[k] = "."
    /\ LowerStr(AfterLastDot(filename)) \in ALLOWED_IMAGE_EXTS

\* uuid.uuid4().hex of the file saved for slot i: a fresh name at each call
Uuid4 == <<"uuid1", "uuid2", "uuid3", "uuid4", "uuid5", "uuid6", "uuid7", "uuid8">>

\* _save_one_file, called for slot i: None for no file, no filename or an
\* extension outside the allow-list, else PUBLIC_BASE + day + "/" + uuid + "." + ext
_save_one_file(file_storage, i) ==
    IF file_storage = None \/ file_storage = <<>> THEN None
    ELSE IF ~_allowed_image(file_storage) THEN None
    ELSE <<"PUBLIC_BASE", "day", "/", Uuid4[i], ".">> \o LowerStr(AfterLastDot(file_storage))

\* the names of the form fields of slot i
Slots == 1..8
ImgFile == <<"img1_file", "img2_file", "img3_file", "img4_file",
             "img5_file", "img6_file", "img7_file", "img8_file">>
ImageFile == <<"image_file_1", "image_file_2", "image_file_3", "image_file_4",
               "image_file_5", "image_file_6", "image_file_7", "image_file_8">>
ImgUrl == <<"img1_url", "img2_url", "img3_url", "img4_url",
            "img5_url", "img6_url", "img7_url", "img8_url">>
ImageUrl == <<"image_url_1", "image_url_2", "image_url_3", "image_url_4",
              "image_url_5", "image_url_6", "image_url_7", "image_url_8">>

\* the body of the loop of _collect_ordered_images_from_form for slot i: the
\* entries the slot appends to `ordered`
SlotEntries(form, i) ==
    LET up    == Or(FormGet(form, ImgFile[i]), FormGet(form, ImageFile[i]))
        saved == _save_one_file(up, i)
        url   == Strip(Or(Or(FormGet(form, ImgUrl[i]), FormGet(form, ImageUrl[i])), <<>>))
    IN  IF up # None /\ up # <<>> /\ saved # None THEN <<saved>>
        ELSE IF url # <<>> THEN <<url>>
        ELSE <<>>

\* the loop for i in range(1, 9), from slot i on
RECURSIVE OrderedFrom(_, _)
OrderedFrom(form, i) ==
    IF i > 8 THEN <<>> ELSE SlotEntries(form, i) \o OrderedFrom(form, i + 1)

\* _collect_ordered_images_from_form
_collect_ordered_images_from_form(form) ==
    LET ordered == OrderedFrom(form, 1)
        images  == FormGet(form, "images")
    IN  IF ordered # <<>> THEN ordered
        ELSE _split_list(IF images = None THEN <<>> ELSE images)

-----------------------------------------------------------------------------
(* Admin: workouts *)

\* the fields admin_workout_new and admin_workout_edit parse from the form
WorkoutFields(form) ==
    LET body_parts == _split_list(form.body_parts) IN
    [name        |-> Strip(form.name),
     level       |-> Strip(form.level),
     style       |-> Strip(form.style),
     body_parts  |-> body_parts,
     body_part   |-> IF body_parts # <<>> THEN body_parts[1] ELSE Strip(form.body_part),
     tags        |-> _split_list(form.tags),
     images      |-> _collect_ordered_images_from_form(form),
     youtube_id  |-> _extract_youtube_id(FormGet(form, "youtube_id")),
     is_favorite |-> form.is_favorite,
     rating      |-> Float(form.rating)]

\* slug = (form.get("slug") or slugify(name)).strip(); if not slug: slug = slugify(name)
WorkoutSlug(form) ==
    LET name == Strip(form.name)
        slug == Strip(IF form.slug # <<>> THEN form.slug ELSE slugify(name))
    IN  IF slug = <<>> THEN slugify(name) ELSE slug

\* the document admin_workout_new inserts, utcnow() having returned `at`
WorkoutDoc(form, at) ==
    WorkoutFields(form) @@ [slug |-> WorkoutSlug(form), created_at |-> at]

\* (the same as the inserted document, created_at included)
WorkoutUpdateStamped(form, at) == WorkoutDoc(form, at)

\* the $set document of admin_workout_edit (no created_at), utcnow() being `at`
WorkoutUpdate(form, at) ==
    WorkoutFields(form) @@ [slug |-> WorkoutSlug(form)]

\* the forms submitted to the admin workout handlers: a blank name, a slug
\* derived from the name, a slug typed in (with a space to strip), a third slug,
\* no name and a rating that is no number
WorkoutForm(name, slug) ==
    [name |-> name, slug |-> slug, level |-> <<"B">>, style |-> <<"a">>,
     body_parts |-> <<"A", ",", "b">>, body_part |-> <<>>, tags |-> <<"c", "\n">>,
     is_favorite |-> FALSE, rating |-> <<"1">>]
WorkoutForms ==
    { WorkoutForm(<<" ">>, <<"c">>),
      WorkoutForm(<<"A", " ", "b">>, <<>>),
      WorkoutForm(<<"c">>, <<" ", "a", "-", "b">>),
      WorkoutForm(<<"c">>, <<>>),
      [WorkoutForm(<<>>, <<>>) EXCEPT !.rating = <<"a">>] }

\* POST /admin/workouts/new with one of `forms`, up to the find_one on the slug
WorkoutNewPostFrom(w, forms) ==
    /\ Free(w)
    /\ \E form \in forms :
         LET r == Req("workout_new", "insert", 0, form, WorkoutSlug(form),
                      WorkoutDoc(form, now), "none", "none")
         IN  reqs' = [reqs EXCEPT ![w] =
                IF FloatRaises(form.rating) THEN Raised(r, "ValueError")
                ELSE IF Strip(form.name) = <<>> THEN Rendered(r, "name_required")
                ELSE IF FindSlugOther(workouts, r.slug, 0) THEN Done(r, "form", "slug_used")
                ELSE r]
    /\ started' = started + 1
    /\ UNCHANGED <<store, nextId, now>>
    /\ UNCHANGED <<sessions, failed_logins>>

WorkoutNewPost(w) == WorkoutNewPostFrom(w, WorkoutForms)

\* db.workouts.insert_one(doc) inside try/except Exception
WorkoutNewInsert(w) ==
    /\ reqs[w].op = "workout_new" /\ reqs[w].pc = "insert"
    /\ \E fault \in BOOLEAN :
         IF fault
         THEN /\ reqs' = [reqs EXCEPT ![w] = Caught(@, "StoreError")]
              /\ UNCHANGED <<workouts, nextId>>
         ELSE IF ~UniqueSlugIndex(workouts, nextId, reqs[w].doc.slug)
         THEN /\ reqs' = [reqs EXCEPT ![w] = Caught(@, "DuplicateKeyError")]
              /\ UNCHANGED <<workouts, nextId>>
         ELSE /\ workouts' = Insert(workouts, nextId, reqs[w].doc)
              /\ nextId' = nextId + 1
              /\ reqs' = [reqs EXCEPT ![w] = Done(@, "redirect", "added")]
    /\ UNCHANGED <<styles, programs, home_plans, program_weeks, program_items,
                   now, started>>
    /\ UNCHANGED <<sessions, failed_logins>>

\* POST /admin/workouts/<id>/edit up to the form validation
WorkoutEditPost(w) ==
    /\ Free(w)
    /\ \E id \in Targets(workouts), form \in WorkoutForms :
         LET r == Req("workout_edit", "check", id, form, WorkoutSlug(form),
                      WorkoutUpdate(form, now), "none", "none")
         IN  reqs' = [reqs EXCEPT ![w] =
                IF id \notin DOMAIN workouts THEN Done(r, "404", "none")
                ELSE IF FloatRaises(form.rating) THEN Raised(r, "ValueError")
                ELSE IF Strip(form.name) = <<>> THEN Rendered(r, "name_required")
                ELSE r]
    /\ started' = started + 1
    /\ UNCHANGED <<store, nextId, now>>
    /\ UNCHANGED <<sessions, failed_logins>>

\* existing = db.workouts.find_one({"slug": slug, "_id": {"$ne": ObjectId(id)}})
WorkoutEditCheck(w) ==
    /\ reqs[w].op = "workout_edit" /\ reqs[w].pc = "check"
    /\ reqs' = [reqs EXCEPT ![w] =
          IF FindSlugOther(workouts, @.slug, @.id) THEN Done(@, "form", "slug_used")
          ELSE [@ EXCEPT !.pc = "update"]]
    /\ UNCHANGED <<store, nextId, now, started>>
    /\ UNCHANGED <<sessions, failed_logins>>

\* db.workouts.update_one(...) inside try/except Exception; an update that matches
\* no document (the workout was deleted meanwhile) succeeds and changes nothing
WorkoutEditUpdate(w) ==
    /\ reqs[w].op = "workout_edit" /\ reqs[w].pc = "update"
    /\ \E fault \in BOOLEAN :
         IF fault
         THEN /\ reqs' = [reqs EXCEPT ![w] = Caught(@, "StoreError")]
              /\ UNCHANGED workouts
         ELSE IF /\ reqs[w].id \in DOMAIN workouts
                 /\ ~UniqueSlugIndex(workouts, reqs[w].id, reqs[w].doc.slug)
         THEN /\ reqs' = [reqs EXCEPT ![w] = Caught(@, "DuplicateKeyError")]
              /\ UNCHANGED workouts
         ELSE /\ workouts' = SetFields(workouts, reqs[w].id, reqs[w].doc)
              /\ reqs' = [reqs EXCEPT ![w] = Done(@, "redirect", "updated")]
    /\ UNCHANGED <<styles, programs, home_plans, program_weeks, program_items,
                   nextId, now, started>>
    /\ UNCHANGED <<sessions, failed_logins>>

\* POST /admin/workouts/<id>/delete: delete_one, no lookup and no try/except
WorkoutDelete(w) ==
    /\ Free(w)
    /\ \E id \in Targets(workouts), fault \in BOOLEAN :
         LET r == Req("workout_delete", "done", id, NoDoc, <<>>, NoDoc, "none", "none")
         IN  IF fault
             THEN /\ reqs' = [reqs EXCEPT ![w] = Uncaught(r, "StoreError")]
                  /\ UNCHANGED workouts
             ELSE /\ reqs' = [reqs EXCEPT ![w] = Done(r, "redirect", "deleted")]
                  /\ workouts' = Delete(workouts, {id})
    /\ started' = started + 1
    /\ UNCHANGED <<styles, programs, home_plans, program_weeks, program_items,
                   nextId, now>>
    /\ UNCHANGED <<sessions, failed_logins>>

\* time passes
Tick ==
    /\ now < MaxTime
    /\ now' = now + 1
    /\ UNCHANGED <<store, nextId, started, reqs>>
    /\ UNCHANGED <<sessions, failed_logins>>

-----------------------------------------------------------------------------
(* The admin workout handlers, interleaved *)

\* the admin has signed in from the first client, and no login has failed
SignedIn ==
    /\ sessions = [c \in Clients |-> c = "c1"]
    /\ failed_logins = [c \in Clients |-> <<>>]

EmptyStore ==
    /\ workouts = <<>> /\ styles = <<>> /\ programs = <<>>
    /\ home_plans = <<>> /\ program_weeks = <<>> /\ program_items = <<>>

Init ==
    /\ SignedIn
    /\ EmptyStore
    /\ nextId = 1
    /\ now = 0
    /\ started = 0
    /\ reqs = [w \in Workers |-> Idle]

Next ==
    \/ \E w \in Workers : WorkoutNewPost(w)
    \/ \E w \in Workers : WorkoutNewInsert(w)
    \/ \E w \in Workers : WorkoutEditPost(w)
    \/ \E w \in Workers : WorkoutEditCheck(w)
    \/ \E w \in Workers : WorkoutEditUpdate(w)
    \/ \E w \in Workers : WorkoutDelete(w)
    \/ Tick

Spec == Init /\ [][Next]_vars

-----------------------------------------------------------------------------
(* Properties of the admin workout handlers *)

\* worker w's request ends in this step
Ends(w) == reqs[w].pc # "done" \/ reqs'[w] # reqs[w]

\* a create, or an edit of a workout that exists
WritesWorkout(r, coll) ==
    \/ r.op = "workout_new"
    \/ r.op = "workout_edit" /\ r.id \in DOMAIN coll

C2_CreatedAtWrittenOnce ==
    [][/\ \A i \in DOMAIN workouts \cap DOMAIN workouts' :
             workouts'[i].created_at = workouts[i].created_at
       /\ \A i \in DOMAIN workouts' \ DOMAIN workouts :
             \E w \in Workers : /\ reqs[w].op = "workout_new" /\ reqs[w].pc = "insert"
                                /\ workouts'[i].created_at = reqs[w].doc.created_at]_vars

C2_Witness ==
    \E w \in Workers :
        /\ reqs[w].op = "workout_edit" /\ reqs[w].flash = "updated"
        /\ reqs[w].id \in DOMAIN workouts
        /\ workouts[reqs[w].id].slug = reqs[w].slug
        /\ workouts[reqs[w].id].created_at < now

\* C3: no two workout documents have the same slug, whatever the interleaving of
\* the admin create, edit and delete requests
C3_SlugUnique ==
    \A i, j \in DOMAIN workouts : i # j => workouts[i].slug # workouts[j].slug

\* two creates raced on one slug: the second insert was refused by the index
C3_Witness ==
    \E w \in Workers :
        /\ reqs[w].op = "workout_new" /\ reqs[w].raised = "DuplicateKeyError"
        /\ FindSlugOther(workouts, reqs[w].slug, 0)

-----------------------------------------------------------------------------
(* Admin: styles *)

\* the forms submitted to POST /admin/styles: two names of one slug, a blank name
StyleForms ==
    { [name |-> <<"A", " ", "b">>, order |-> 0],
      [name |-> <<"a", "-", "b">>, order |-> 1],
      [name |-> <<" ">>, order |-> 0] }

\* the document admin_styles inserts
StyleDoc(form) ==
    [name |-> Strip(form.name), slug |-> slugify(Strip(form.name)),
     order |-> form.order, active |-> TRUE]

\* POST /admin/styles up to the find_one on the slug
StyleAddPost(w) ==
    /\ Free(w)
    /\ \E form \in StyleForms :
         LET r == Req("style_add", "insert", 0, form, StyleDoc(form).slug,
                      StyleDoc(form), "none", "none")
         IN  reqs' = [reqs EXCEPT ![w] =
                IF Strip(form.name) = <<>> THEN Done(r, "redirect", "name_required")
                ELSE IF FindSlugOther(styles, r.slug, 0) THEN Done(r, "redirect", "exists")
                ELSE r]
    /\ started' = started + 1
    /\ UNCHANGED <<store, nextId, now>>
    /\ UNCHANGED <<sessions, failed_logins>>

\* db.styles.insert_one(...), with no try/except around it
StyleAddInsert(w) ==
    /\ reqs[w].op = "style_add" /\ reqs[w].pc = "insert"
    /\ \E fault \in BOOLEAN :
         IF fault
         THEN /\ reqs' = [reqs EXCEPT ![w] = Uncaught(@, "StoreError")]
              /\ UNCHANGED <<styles, nextId>>
         ELSE IF ~UniqueSlugIndex(styles, nextId, reqs[w].doc.slug)
         THEN /\ reqs' = [reqs EXCEPT ![w] = Uncaught(@, "DuplicateKeyError")]
              /\ UNCHANGED <<styles, nextId>>
         ELSE /\ styles' = Insert(styles, nextId, reqs[w].doc)
              /\ nextId' = nextId + 1
              /\ reqs' = [reqs EXCEPT ![w] = Done(@, "redirect", "added")]
    /\ UNCHANGED <<workouts, programs, home_plans, program_weeks, program_items,
                   now, started>>
    /\ UNCHANGED <<sessions, failed_logins>>

-----------------------------------------------------------------------------
(* Admin: programs and home plans.  Their category, duration_label, summary   *)
(* and cover_image are texts no handler reads, and are left out.              *)

\* slug = (form.get("slug") or "").strip() or slugify(title)
TitleSlug(form) ==
    IF Strip(form.slug) # <<>> THEN Strip(form.slug) ELSE slugify(Strip(form.title))

\* the forms submitted to the program handlers
ProgramForms ==
    { [title |-> <<"A", " ", "b">>, slug |-> <<>>, order |-> 0,
       active |-> TRUE, show_on_home |-> TRUE],
      [title |-> <<"c">>, slug |-> <<"a", "-", "b", " ">>, order |-> 1,
       active |-> FALSE, show_on_home |-> FALSE],
      [title |-> <<>>, slug |-> <<"c">>, order |-> 0,
       active |-> TRUE, show_on_home |-> FALSE] }

\* the $set document of admin_program_edit
ProgramUpdate(form) ==
    [title |-> Strip(form.title), slug |-> TitleSlug(form), order |-> form.order,
     active |-> form.active, show_on_home |-> form.show_on_home]

\* the document admin_program_new inserts
ProgramDoc(form, at) == ProgramUpdate(form) @@ [created_at |-> at]

\* POST /admin/programs/new up to the find_one on the slug
ProgramNewPost(w) ==
    /\ Free(w)
    /\ \E form \in ProgramForms :
         LET r == Req("program_new", "insert", 0, form, TitleSlug(form),
                      ProgramDoc(form, now), "none", "none")
         IN  reqs' = [reqs EXCEPT ![w] =
                IF Strip(form.title) = <<>> THEN Done(r, "form", "title_required")
                ELSE IF FindSlugOther(programs, r.slug, 0) THEN Done(r, "form", "slug_used")
                ELSE r]
    /\ started' = started + 1
    /\ UNCHANGED <<store, nextId, now>>
    /\ UNCHANGED <<sessions, failed_logins>>

\* db.programs.insert_one(doc) inside try/except Exception
ProgramNewInsert(w) ==
    /\ reqs[w].op = "program_new" /\ reqs[w].pc = "insert"
    /\ \E fault \in BOOLEAN :
         IF fault
         THEN /\ reqs' = [reqs EXCEPT ![w] = Caught(@, "StoreError")]
              /\ UNCHANGED <<programs, nextId>>
         ELSE IF ~UniqueSlugIndex(programs, nextId, reqs[w].doc.slug)
         THEN /\ reqs' = [reqs EXCEPT ![w] = Caught(@, "DuplicateKeyError")]
              /\ UNCHANGED <<programs, nextId>>
         ELSE /\ programs' = Insert(programs, nextId, reqs[w].doc)
              /\ nextId' = nextId + 1
              /\ reqs' = [reqs EXCEPT ![w] = Done(@, "redirect", "added")]
    /\ UNCHANGED <<workouts, styles, home_plans, program_weeks, program_items,
                   now, started>>
    /\ UNCHANGED <<sessions, failed_logins>>

\* POST /admin/programs/<id>/edit up to the form validation
ProgramEditPost(w) ==
    /\ Free(w)
    /\ \E id \in Targets(programs), form \in ProgramForms :
         LET r == Req("program_edit", "check", id, form, TitleSlug(form),
                      ProgramUpdate(form), "none", "none")
         IN  reqs' = [reqs EXCEPT ![w] =
                IF id \notin DOMAIN programs THEN Done(r, "404", "none")
                ELSE IF Strip(form.title) = <<>> THEN Done(r, "form", "title_required")
                ELSE r]
    /\ started' = started + 1
    /\ UNCHANGED <<store, nextId, now>>
    /\ UNCHANGED <<sessions, failed_logins>>

\* existing = db.programs.find_one({"slug": slug, "_id": {"$ne": ObjectId(id)}})
ProgramEditCheck(w) ==
    /\ reqs[w].op = "program_edit" /\ reqs[w].pc = "check"
    /\ reqs' = [reqs EXCEPT ![w] =
          IF FindSlugOther(programs, @.slug, @.id) THEN Done(@, "form", "slug_used")
          ELSE [@ EXCEPT !.pc = "update"]]
    /\ UNCHANGED <<store, nextId, now, started>>
    /\ UNCHANGED <<sessions, failed_logins>>

\* db.programs.update_one(...) inside try/except Exception
ProgramEditUpdate(w) ==
    /\ reqs[w].op = "program_edit" /\ reqs[w].pc = "update"
    /\ \E fault \in BOOLEAN :
         IF fault
         THEN /\ reqs' = [reqs EXCEPT ![w] = Caught(@, "StoreError")]
              /\ UNCHANGED programs
         ELSE IF /\ reqs[w].id \in DOMAIN programs
                 /\ ~UniqueSlugIndex(programs, reqs[w].id, reqs[w].doc.slug)
         THEN /\ reqs' = [reqs EXCEPT ![w] = Caught(@, "DuplicateKeyError")]
              /\ UNCHANGED programs
         ELSE /\ programs' = SetFields(programs, reqs[w].id, reqs[w].doc)
              /\ reqs' = [reqs EXCEPT ![w] = Done(@, "redirect", "updated")]
    /\ UNCHANGED <<workouts, styles, home_plans, program_weeks, program_items,
                   nextId, now, started>>
    /\ UNCHANGED <<sessions, failed_logins>>

\* the forms submitted to the home plan handlers
HomePlanForms ==
    { [title |-> <<"A", " ", "b">>, slug |-> <<>>, cta_label |-> <<>>,
       cta_url |-> <<"c">>, order |-> 0, active |-> TRUE],
      [title |-> <<"c">>, slug |-> <<"a", "-", "b", " ">>, cta_label |-> <<"a">>,
       cta_url |-> <<"c">>, order |-> 1, active |-> FALSE],
      [title |-> <<"c">>, slug |-> <<>>, cta_label |-> <<>>,
       cta_url |-> <<" ">>, order |-> 0, active |-> TRUE],
      [title |-> <<>>, slug |-> <<"c">>, cta_label |-> <<>>,
       cta_url |-> <<"c">>, order |-> 0, active |-> TRUE] }

\* cta_label = (form.get("cta_label") or "").strip() or "View Plan"
ViewPlan == <<"B">>

\* the $set document of admin_home_plan_edit
HomePlanUpdate(form) ==
    [title |-> Strip(form.title), slug |-> TitleSlug(form),
     cta_label |-> IF Strip(form.cta_label) # <<>> THEN Strip(form.cta_label) ELSE ViewPlan,
     cta_url |-> Strip(form.cta_url), order |-> form.order, active |-> form.active]

\* the document admin_home_plan_new inserts
HomePlanDoc(form, at) == HomePlanUpdate(form) @@ [created_at |-> at]

\* the validation of the home plan form: the flashed message, or "none"
HomePlanInvalid(form) ==
    IF Strip(form.title) = <<>> THEN "title_required"
    ELSE IF Strip(form.cta_url) = <<>> THEN "cta_url_required"
    ELSE "none"

\* POST /admin/home-plans/new up to the find_one on the slug
HomePlanNewPost(w) ==
    /\ Free(w)
    /\ \E form \in HomePlanForms :
         LET r == Req("home_plan_new", "insert", 0, form, TitleSlug(form),
                      HomePlanDoc(form, now), "none", "none")
         IN  reqs' = [reqs EXCEPT ![w] =
                IF HomePlanInvalid(form) # "none" THEN Done(r, "form", HomePlanInvalid(form))
                ELSE IF FindSlugOther(home_plans, r.slug, 0) THEN Done(r, "form", "slug_used")
                ELSE r]
    /\ started' = started + 1
    /\ UNCHANGED <<store, nextId, now>>
    /\ UNCHANGED <<sessions, failed_logins>>

\* db.home_plans.insert_one(doc) inside try/except Exception
HomePlanNewInsert(w) ==
    /\ reqs[w].op = "home_plan_new" /\ reqs[w].pc = "insert"
    /\ \E fault \in BOOLEAN :
         IF fault
         THEN /\ reqs' = [reqs EXCEPT ![w] = Caught(@, "StoreError")]
              /\ UNCHANGED <<home_plans, nextId>>
         ELSE IF ~UniqueSlugIndex(home_plans, nextId, reqs[w].doc.slug)
         THEN /\ reqs' = [reqs EXCEPT ![w] = Caught(@, "DuplicateKeyError")]
              /\ UNCHANGED <<home_plans, nextId>>
         ELSE /\ home_plans' = Insert(home_plans, nextId, reqs[w].doc)
              /\ nextId' = nextId + 1
              /\ reqs' = [reqs EXCEPT ![w] = Done(@, "redirect", "added")]
    /\ UNCHANGED <<workouts, styles, programs, program_weeks, program_items,
                   now, started>>
    /\ UNCHANGED <<sessions, failed_logins>>

\* POST /admin/home-plans/<id>/edit up to the form validation
HomePlanEditPost(w) ==
    /\ Free(w)
    /\ \E id \in Targets(home_plans), form \in HomePlanForms :
         LET r == Req("home_plan_edit", "check", id, form, TitleSlug(form),
                      HomePlanUpdate(form), "none", "none")
         IN  reqs' = [reqs EXCEPT ![w] =
                IF id \notin DOMAIN home_plans THEN Done(r, "404", "none")
                ELSE IF HomePlanInvalid(form) # "none"
                     THEN Done(r, "form", HomePlanInvalid(form))
                ELSE r]
    /\ started' = started + 1
    /\ UNCHANGED <<store, nextId, now>>
    /\ UNCHANGED <<sessions, failed_logins>>

\* existing = db.home_plans.find_one({"slug": slug, "_id": {"$ne": ObjectId(id)}})
HomePlanEditCheck(w) ==
    /\ reqs[w].op = "home_plan_edit" /\ reqs[w].pc = "check"
    /\ reqs' = [reqs EXCEPT ![w] =
          IF FindSlugOther(home_plans, @.slug, @.id) THEN Done(@, "form", "slug_used")
          ELSE [@ EXCEPT !.pc = "update"]]
    /\ UNCHANGED <<store, nextId, now, started>>
    /\ UNCHANGED <<sessions, failed_logins>>

\* db.home_plans.update_one(...) inside try/except Exception
HomePlanEditUpdate(w) ==
    /\ reqs[w].op = "home_plan_edit" /\ reqs[w].pc = "update"
    /\ \E fault \in BOOLEAN :
         IF fault
         THEN /\ reqs' = [reqs EXCEPT ![w] = Caught(@, "StoreError")]
              /\ UNCHANGED home_plans
         ELSE IF /\ reqs[w].id \in DOMAIN home_plans
                 /\ ~UniqueSlugIndex(home_plans, reqs[w].id, reqs[w].doc.slug)
         THEN /\ reqs' = [reqs EXCEPT ![w] = Caught(@, "DuplicateKeyError")]
              /\ UNCHANGED home_plans
         ELSE /\ home_plans' = SetFields(home_plans, reqs[w].id, reqs[w].doc)
              /\ reqs' = [reqs EXCEPT ![w] = Done(@, "redirect", "updated")]
    /\ UNCHANGED <<workouts, styles, programs, program_weeks, program_items,
                   nextId, now, started>>
    /\ UNCHANGED <<sessions, failed_logins>>

-----------------------------------------------------------------------------
(* The handlers that write a slug, in all four collections, interleaved *)

NextSlugWrite ==
    \/ \E w \in Workers : WorkoutNewPost(w)
    \/ \E w \in Workers : WorkoutNewInsert(w)
    \/ \E w \in Workers : WorkoutEditPost(w)
    \/ \E w \in Workers : WorkoutEditCheck(w)
    \/ \E w \in Workers : WorkoutEditUpdate(w)
    \/ \E w \in Workers : StyleAddPost(w)
    \/ \E w \in Workers : StyleAddInsert(w)
    \/ \E w \in Workers : ProgramNewPost(w)
    \/ \E w \in Workers : ProgramNewInsert(w)
    \/ \E w \in Workers : ProgramEditPost(w)
    \/ \E w \in Workers : ProgramEditCheck(w)
    \/ \E w \in Workers : ProgramEditUpdate(w)
    \/ \E w \in Workers : HomePlanNewPost(w)
    \/ \E w \in Workers : HomePlanNewInsert(w)
    \/ \E w \in Workers : HomePlanEditPost(w)
    \/ \E w \in Workers : HomePlanEditCheck(w)
    \/ \E w \in Workers : HomePlanEditUpdate(w)

SpecSlugWrite == Init /\ [][NextSlugWrite]_vars

\* C4: a write that loses a race on a slug, and is refused by the unique index, is
\* handled as a validation failure (a flashed message and the form or a redirect),
\* never as an unhandled exception, in each of the four collections
C4_DuplicateKeyHandled ==
    \A w \in Workers :
        (reqs[w].pc = "done" /\ reqs[w].raised = "DuplicateKeyError")
        => reqs[w].resp \in {"form", "redirect"} /\ reqs[w].flash # "none"

-----------------------------------------------------------------------------
(* Admin: program delete, the cascade over weeks and items *)

\* (the same with an empty filter)
AllWeeks(coll, pid) == DOMAIN coll

\* db.program_weeks.find({"program_id": prog["_id"]}): the _ids of the weeks
WeeksOf(coll, pid) == {k \in DOMAIN coll : coll[k].program_id = pid}

\* the items that {"week_id": {"$in": week_ids}} matches
ItemsOf(coll, week_ids) == {k \in DOMAIN coll : coll[k].week_id \in week_ids}

\* (the same from the program down)
CascadeProgramFirst(week_ids) ==
    IF week_ids # {} THEN <<"program", "program_weeks", "program_items">> ELSE <<"program">>

\* the store deletions of admin_program_delete, in the order it issues them
Cascade(week_ids) ==
    IF week_ids # {} THEN <<"program_items", "program_weeks", "program">> ELSE <<"program">>

\* the _ids of every document of the program hierarchy
HierarchyIds == DOMAIN programs \cup DOMAIN program_weeks \cup DOMAIN program_items

\* POST /admin/programs/<id>/delete up to the find_one on the _id.  The request
\* remembers, for the properties below, the weeks and items the program has now
\* (weeks0, items0) and the documents its own deletions removed (gone).
ProgramDeletePost(w) ==
    /\ Free(w)
    /\ \E id \in Targets(programs) :
         LET weeks0 == {k \in DOMAIN program_weeks : program_weeks[k].program_id = id}
             items0 == {k \in DOMAIN program_items : program_items[k].week_id \in weeks0}
             r == Req("program_delete", "weeks", id, NoDoc, <<>>,
                      [week_ids |-> {}, todo |-> <<>>, weeks0 |-> weeks0,
                       items0 |-> items0, gone |-> {}],
                      "none", "none")
         IN  reqs' = [reqs EXCEPT ![w] =
                IF id \notin DOMAIN programs THEN Done(r, "404", "none") ELSE r]
    /\ started' = started + 1
    /\ UNCHANGED <<store, nextId, now>>
    /\ UNCHANGED <<sessions, failed_logins>>

\* weeks = list(db.program_weeks.find(...)); week_ids = [w["_id"] for w in weeks]
ProgramDeleteWeeks(w) ==
    /\ reqs[w].op = "program_delete" /\ reqs[w].pc = "weeks"
    /\ LET week_ids == WeeksOf(program_weeks, reqs[w].id)
       IN  reqs' = [reqs EXCEPT ![w].pc = "cascade",
                                ![w].doc.week_ids = week_ids,
                                ![w].doc.todo = Cascade(week_ids)]
    /\ UNCHANGED <<store, nextId, now, started>>
    /\ UNCHANGED <<sessions, failed_logins>>

\* the next deletion of the cascade; none of them is inside a try/except
ProgramDeleteStep(w) ==
    /\ reqs[w].op = "program_delete" /\ reqs[w].pc = "cascade"
    /\ LET r    == reqs[w]
           what == Head(r.doc.todo)
           rest == Tail(r.doc.todo)
       IN  \E fault \in BOOLEAN :
             IF fault
             THEN /\ reqs' = [reqs EXCEPT ![w] =
                        [r EXCEPT !.pc = "done", !.resp = "500", !.raised = "StoreError"]]
                  /\ UNCHANGED <<programs, program_weeks, program_items>>
             ELSE /\ program_items' =
                        IF what = "program_items"
                        THEN Delete(program_items, ItemsOf(program_items, r.doc.week_ids))
                        ELSE program_items
                  /\ program_weeks' =
                        IF what = "program_weeks"
                        THEN Delete(program_weeks, r.doc.week_ids)
                        ELSE program_weeks
                  /\ programs' =
                        IF what = "program" THEN Delete(programs, {r.id}) ELSE programs
                  /\ reqs' = [reqs EXCEPT ![w] =
                        [r EXCEPT !.pc = IF rest = <<>> THEN "done" ELSE "cascade",
                                  !.resp = IF rest = <<>> THEN "redirect" ELSE "none",
                                  !.flash = IF rest = <<>> THEN "deleted" ELSE "none",
                                  !.doc.todo = rest,
                                  !.doc.gone = @ \cup (HierarchyIds \ HierarchyIds')]]
    /\ UNCHANGED <<workouts, styles, home_plans, nextId, now, started>>
    /\ UNCHANGED <<sessions, failed_logins>>

\* the program hierarchies of the initial store: programs, each week under one of
\* them, each item under one of the weeks
ProgramIds == {1, 2}
WeekIds == {11, 12}
ItemIds == {21, 22}

InitProgram(i) ==
    [title |-> IF i = 1 THEN <<"A", " ", "b">> ELSE <<"c">>,
     slug |-> IF i = 1 THEN <<"a", "-", "b">> ELSE <<"c">>,
     order |-> 0, active |-> TRUE, show_on_home |-> (i = 1), created_at |-> 0]

InitPrograms ==
    /\ SignedIn
    /\ workouts = <<>> /\ styles = <<>> /\ home_plans = <<>>
    /\ \E P \in SUBSET ProgramIds : programs = [i \in P |-> InitProgram(i)]
    /\ \E W \in SUBSET WeekIds : \E owner \in [W -> DOMAIN programs] :
         program_weeks = [k \in W |->
            [program_id |-> owner[k], week_number |-> k - 10, order |-> 0]]
    /\ \E I \in SUBSET ItemIds : \E owner \in [I -> DOMAIN program_weeks] :
         program_items = [k \in I |->
            [week_id |-> owner[k], workout_id |-> 0, order |-> k - 20, created_at |-> 0]]
    /\ nextId = 31
    /\ now = 0
    /\ started = 0
    /\ reqs = [w \in Workers |-> Idle]

NextPrograms ==
    \/ \E w \in Workers : ProgramDeletePost(w)
    \/ \E w \in Workers : ProgramDeleteWeeks(w)
    \/ \E w \in Workers : ProgramDeleteStep(w)

SpecPrograms == InitPrograms /\ [][NextPrograms]_vars

\* C5: once admin program delete has completed, the program, its N weeks and
\* their M items are gone, the request has removed no other document, no week
\* refers to the program and no item refers to one of its weeks
C5_DeleteRemovesSubtree ==
    \A w \in Workers :
        (reqs[w].op = "program_delete" /\ reqs[w].resp = "redirect")
        => LET d        == reqs[w].doc
               expected == {reqs[w].id} \cup d.weeks0 \cup d.items0
           IN  /\ expected \cap HierarchyIds = {}
               /\ d.gone \subseteq expected
               /\ \A k \in DOMAIN program_weeks :
                     program_weeks[k].program_id # reqs[w].id
               /\ \A k \in DOMAIN program_items :
                     program_items[k].week_id \notin d.weeks0

\* the delete of a program with a week and an item has completed and has removed
\* them all; another program and a week of it are left
C5_Witness ==
    \E w \in Workers :
        /\ reqs[w].op = "program_delete" /\ reqs[w].resp = "redirect"
        /\ reqs[w].doc.weeks0 # {} /\ reqs[w].doc.items0 # {}
        /\ reqs[w].doc.gone = {reqs[w].id} \cup reqs[w].doc.weeks0 \cup reqs[w].doc.items0
        /\ programs # <<>> /\ program_weeks # <<>>

\* C6: in every state, the intermediate states of the cascade and the state it
\* stops in included, every item's week and every week's program exist
C6_NoOrphans ==
    /\ \A k \in DOMAIN program_items :
          program_items[k].week_id \in DOMAIN program_weeks
    /\ \A k \in DOMAIN program_weeks :
          program_weeks[k].program_id \in DOMAIN programs

\* a cascade that stopped on a store error after it deleted the items of its program
C6_Witness ==
    \E w \in Workers :
        /\ reqs[w].op = "program_delete" /\ reqs[w].resp = "500"
        /\ reqs[w].doc.gone # {} /\ reqs[w].doc.gone = reqs[w].doc.items0
        /\ reqs[w].doc.weeks0 \subseteq DOMAIN program_weeks
        /\ reqs[w].id \in DOMAIN programs

-----------------------------------------------------------------------------
(* Public: browse and search *)

\* the order of the store on strings: code point by code point, a prefix first
RECURSIVE StrLess(_, _)
StrLess(a, b) ==
    IF b = <<>> THEN FALSE
    ELSE IF a = <<>> THEN TRUE
    ELSE IF Head(a) # Head(b) THEN Code(Head(a)) < Code(Head(b))
    ELSE StrLess(Tail(a), Tail(b))

\* (the same without the "i" option)
CharMatchExact(p, c) == IF p = "." THEN c # "\n" ELSE p = c

\* one character of the pattern against one of the text, under the "i" option:
\* "." is any character but a newline, any other character of the model is itself
CharMatch(p, c) == IF p = "." THEN c # "\n" ELSE Lower(p) = Lower(c)

\* Regex(q, "i") against a string: the pattern matches somewhere in the text
RegexSearch(q, text) ==
    \E i \in 1..(Len(text) - Len(q) + 1) :
        \A k \in 1..Len(q) : CharMatch(q[k], text[i + k - 1])

\* a regex against a field: the string itself, or some element of the array
RegexSearchAny(q, list) == \E k \in 1..Len(list) : RegexSearch(q, list[k])

\* the $or of the free-text query over the six fields
TextQuery(doc, q) ==
    \/ RegexSearch(q, doc.name)
    \/ RegexSearch(q, doc.level)
    \/ RegexSearch(q, doc.body_part)
    \/ RegexSearchAny(q, doc.body_parts)
    \/ RegexSearch(q, doc.style)
    \/ RegexSearchAny(q, doc.tags)

\* (the same on the legacy body_part alone)
BodyClauseSingle(doc, body) == doc.body_part = body

\* {"$or": [{"body_part": body}, {"body_parts": body}]}
BodyClause(doc, body) ==
    \/ doc.body_part = body
    \/ \E k \in 1..Len(doc.body_parts) : doc.body_parts[k] = body

\* request.args.get(name, default): an argument is <<>> (absent) or <<value>>
Arg(x, default) == IF x = <<>> THEN default ELSE x[1]

DefaultPage == 1
DefaultPerPageBrowse == 6
DefaultPerPageSearch == 24
PerPageCap == 100

Max(a, b) == IF a >= b THEN a ELSE b
Min(a, b) == IF a <= b THEN a ELSE b

\* page = max(int(args.get("page", 1)), 1)
PageOf(args) == Max(Arg(args.page, DefaultPage), 1)

\* per_page = min(max(int(args.get("per_page", default)), 1), 100)
PerPageOf(args, default) == Min(Max(Arg(args.per_page, default), 1), PerPageCap)

\* (the same for the styles of the collection that are active)
StyleClauseListed(doc, style) ==
    /\ doc.style = style
    /\ \E k \in DOMAIN styles : styles[k].name = style /\ styles[k].active

\* {"style": style}
StyleClause(doc, style) == doc.style = style

\* (the same with no clause for the favorites)
FavoritesIgnored(doc, sort_key) == TRUE

\* if sort_key == "favorites": {"is_favorite": True}
FavoritesClause(doc, sort_key) == sort_key = "favorites" => doc.is_favorite = TRUE

\* the query of workouts_browse: the $and of the clauses of the supplied arguments
BrowseQuery(doc, args) ==
    /\ args.level # <<>> => doc.level = args.level
    /\ args.style # <<>> => StyleClause(doc, args.style)
    /\ args.body # <<>> => BodyClause(doc, args.body)
    /\ FavoritesClause(doc, Arg(args.sort, "name"))
    /\ Strip(args.q) # <<>> => TextQuery(doc, Strip(args.q))

\* (the same with rating sorted on rating alone)
SortSpecNoTie(sort_key) ==
    IF sort_key = "recent" THEN << <<"created_at", -1>> >>
    ELSE IF sort_key = "rating" THEN << <<"rating", -1>> >>
    ELSE << <<"name", 1>> >>

\* the sort of workouts_browse: a list of (field, direction)
SortSpec(sort_key) ==
    IF sort_key = "recent" THEN << <<"created_at", -1>> >>
    ELSE IF sort_key = "rating" THEN << <<"rating", -1>>, <<"name", 1>> >>
    ELSE << <<"name", 1>> >>

\* the store's comparison of two documents on one field
FieldLess(f, a, b) == IF f = "name" THEN StrLess(a.name, b.name) ELSE a[f] < b[f]

\* document a sorts strictly before document b under the sort list
RECURSIVE Before(_, _, _)
Before(sort, a, b) ==
    IF sort = <<>> THEN FALSE
    ELSE LET f    == Head(sort)[1]
             less == IF Head(sort)[2] = 1 THEN FieldLess(f, a, b) ELSE FieldLess(f, b, a)
             more == IF Head(sort)[2] = 1 THEN FieldLess(f, b, a) ELSE FieldLess(f, a, b)
         IN  less \/ (~more /\ Before(Tail(sort), a, b))

\* find(query).sort(sort): the orders the cursor can return the matching _ids in;
\* documents the sort list does not tell apart come in an order the store chooses
RECURSIVE Cursors(_, _, _)
Cursors(coll, matching, sort) ==
    IF matching = {} THEN {<<>>}
    ELSE UNION { { <<m>> \o c : c \in Cursors(coll, matching \ {m}, sort) } :
                 m \in {m \in matching :
                          \A k \in matching : ~Before(sort, coll[k], coll[m])} }

\* (the same skipping page * per_page)
SkipLimitFromPage(c, n, m) == SubSeq(c, n + m + 1, Min(n + m + m, Len(c)))

\* .skip(n).limit(m) on a cursor
SkipLimit(c, n, m) == SubSeq(c, n + 1, Min(n + m, Len(c)))

\* the documents of a page, each with its _id
Items(coll, ids) == [k \in 1..Len(ids) |-> coll[ids[k]] @@ [_id |-> ids[k]]]

\* a public request is taken by the first worker, once it has sent what it served
Ready(w) ==
    /\ reqs[w] = Idle
    /\ \A v \in Workers : reqs[v].pc = "done" => WorkerNo(w) <= WorkerNo(v)

\* the arguments of GET /workouts/browse
NoText == <<>>
BrowseArgs ==
    [level : {NoText, <<"B">>}, style : {NoText, <<"a">>}, body : {NoText, <<"A">>},
     q : {NoText, <<" ">>, <<"c">>, <<"a", ".">>},
     sort : {<<>>, <<"rating">>, <<"recent">>, <<"favorites">>, <<"top">>},
     page : {<<>>, <<-1>>, <<0>>, <<2>>, <<3>>},
     per_page : {<<>>, <<0>>, <<1>>, <<2>>, <<101>>}]

\* GET /workouts/browse: count_documents(query), then the page of the sorted cursor.
\* The response is what the template gets (items, total, page, per_page); matched
\* and cursor record, for the properties below, the _ids the query matched and
\* the order the cursor had them in.
BrowseFrom(w, arguments) ==
    /\ Ready(w)
    /\ \E args \in arguments :
         LET matching == {i \in DOMAIN workouts : BrowseQuery(workouts[i], args)}
             page     == PageOf(args)
             per_page == PerPageOf(args, DefaultPerPageBrowse)
         IN  \E c \in Cursors(workouts, matching, SortSpec(Arg(args.sort, "name"))) :
               reqs' = [reqs EXCEPT ![w] =
                  Req("browse", "done", 0, args, <<>>,
                      [items |-> Items(workouts, SkipLimit(c, (page - 1) * per_page, per_page)),
                       total |-> Cardinality(matching),
                       page |-> page, per_page |-> per_page,
                       matched |-> matching, cursor |-> c],
                      "page", "none")]
    /\ UNCHANGED <<store, nextId, now, started>>
    /\ UNCHANGED <<sessions, failed_logins>>

Browse(w) == BrowseFrom(w, BrowseArgs)

\* the arguments of GET /search
SearchArgs ==
    [q : {NoText, <<"C">>, <<"a", ".">>, <<"b", " ">>},
     page : {<<>>, <<0>>, <<2>>}, per_page : {<<>>, <<1>>, <<101>>}]

\* GET /search: the home page for a blank q, else the page of the matches by name
Search(w) ==
    /\ Ready(w)
    /\ \E args \in SearchArgs :
         LET q        == Strip(args.q)
             matching == {i \in DOMAIN workouts : TextQuery(workouts[i], q)}
             page     == PageOf(args)
             per_page == PerPageOf(args, DefaultPerPageSearch)
         IN  IF q = <<>>
             THEN reqs' = [reqs EXCEPT ![w] =
                     Req("search", "done", 0, args, <<>>, NoDoc, "home", "none")]
             ELSE \E c \in Cursors(workouts, matching, <<  <<"name", 1>> >>) :
                    reqs' = [reqs EXCEPT ![w] =
                       Req("search", "done", 0, args, <<>>,
                           [items |-> Items(workouts,
                                            SkipLimit(c, (page - 1) * per_page, per_page)),
                            total |-> Cardinality(matching),
                            page |-> page, per_page |-> per_page,
                            matched |-> matching, cursor |-> c],
                           "page", "none")]
    /\ UNCHANGED <<store, nextId, now, started>>
    /\ UNCHANGED <<sessions, failed_logins>>

\* the response is sent: the worker forgets the request
Deliver(w) ==
    /\ reqs[w].pc = "done" /\ reqs[w] # Idle
    /\ reqs' = [reqs EXCEPT ![w] = Idle]
    /\ UNCHANGED <<store, nextId, now, started>>
    /\ UNCHANGED <<sessions, failed_logins>>

\* the workouts of the initial store of the public pages, as admin_workout_new
\* builds them: two of one level and rating, a legacy body_part without body_parts,
\* tags in both cases, a second level
BrowseForms ==
    << [name |-> <<"a">>, slug |-> <<>>, level |-> <<"B">>, style |-> <<"a">>,
        body_parts |-> <<"b", ",", "A">>, body_part |-> <<>>, tags |-> <<"c">>,
        is_favorite |-> TRUE, rating |-> <<"2">>],
       [name |-> <<"B">>, slug |-> <<>>, level |-> <<"B">>, style |-> <<"b">>,
        body_parts |-> <<>>, body_part |-> <<"A">>, tags |-> <<"A">>,
        is_favorite |-> FALSE, rating |-> <<" ", "2">>],
       [name |-> <<"A", " ", "b">>, slug |-> <<>>, level |-> <<"B">>, style |-> <<"a">>,
        body_parts |-> <<"b">>, body_part |-> <<>>,
        tags |-> <<"a", "-", "C", ",", " ", "1">>,
        is_favorite |-> TRUE, rating |-> <<"1">>],
       [name |-> <<"c", " ", "1">>, slug |-> <<>>, level |-> <<"A">>, style |-> <<"a">>,
        body_parts |-> <<"A">>, body_part |-> <<>>, tags |-> <<>>,
        is_favorite |-> FALSE, rating |-> <<"2">>] >>

InitBrowse ==
    /\ SignedIn
    /\ \E S \in SUBSET DOMAIN BrowseForms :
         workouts = [i \in S |-> WorkoutDoc(BrowseForms[i], i % 2)]
    /\ styles = <<>> /\ programs = <<>> /\ home_plans = <<>>
    /\ program_weeks = <<>> /\ program_items = <<>>
    /\ nextId = Len(BrowseForms) + 1
    /\ now = 1
    /\ started = 0
    /\ reqs = [w \in Workers |-> Idle]

NextBrowse ==
    \/ \E w \in Workers : Browse(w)
    \/ \E w \in Workers : Search(w)
    \/ \E w \in Workers : Deliver(w)

SpecBrowse == InitBrowse /\ [][NextBrowse]_vars

-----------------------------------------------------------------------------
(* Properties of browse and search *)

Elems(list) == {list[k] : k \in 1..Len(list)}

\* a <= b in the order of the store on strings
StrLeq(a, b) == ~StrLess(b, a)

\* C7: browse with level=L and sort=rating returns only items of level L, by
\* rating descending, items of one rating by name ascending
C7_LevelByRating ==
    \A w \in Workers :
        LET r == reqs[w] IN
        (r.op = "browse" /\ r.form.level # <<>> /\ r.form.sort = <<"rating">>)
        => LET items == r.doc.items IN
           /\ \A k \in 1..Len(items) : items[k].level = r.form.level
           /\ \A k \in 1..(Len(items) - 1) :
                 \/ items[k].rating > items[k + 1].rating
                 \/ /\ items[k].rating = items[k + 1].rating
                    /\ StrLeq(items[k].name, items[k + 1].name)

\* three items of the level, two of one rating, and a workout of another level
C7_Witness ==
    \E w \in Workers :
        LET r == reqs[w] IN
        /\ r.op = "browse" /\ r.form.level # <<>> /\ r.form.sort = <<"rating">>
        /\ Len(r.doc.items) = 3
        /\ r.doc.items[1].rating = r.doc.items[2].rating
        /\ r.doc.items[1].name # r.doc.items[2].name
        /\ r.doc.items[2].rating > r.doc.items[3].rating
        /\ \E i \in DOMAIN workouts : workouts[i].level # r.form.level

\* the free-text query matches one of name, level, body_part, body_parts, style, tags
MatchesText(doc, q) ==
    \E text \in {doc.name, doc.level, doc.body_part, doc.style}
                  \cup Elems(doc.body_parts) \cup Elems(doc.tags) :
        RegexSearch(q, text)

\* the document satisfies the level, style, body and q arguments that are supplied
SatisfiesSupplied(doc, args) ==
    /\ args.level = <<>> \/ doc.level = args.level
    /\ args.style = <<>> \/ doc.style = args.style
    /\ args.body = <<>> \/ doc.body_part = args.body \/ args.body \in Elems(doc.body_parts)
    /\ Strip(args.q) = <<>> \/ MatchesText(doc, Strip(args.q))

\* C8 as stated: the workouts browse matches are exactly those that satisfy the
\* supplied level, style, body and q arguments
C8_ExactlySuppliedFilters ==
    \A w \in Workers :
        reqs[w].op = "browse"
        => reqs[w].doc.matched =
              {i \in DOMAIN workouts : SatisfiesSupplied(workouts[i], reqs[w].form)}

\* C8 amended: the workouts browse matches are exactly those that satisfy the
\* supplied level, style, body and q arguments and, when sort=favorites, have
\* is_favorite true
C8_SuppliedFiltersAndFavorites ==
    \A w \in Workers :
        reqs[w].op = "browse"
        => reqs[w].doc.matched =
              {i \in DOMAIN workouts :
                  /\ SatisfiesSupplied(workouts[i], reqs[w].form)
                  /\ reqs[w].form.sort = <<"favorites">> => workouts[i].is_favorite}

\* all four filters supplied: some workout matches, one fails only the body filter
C8_Witness ==
    \E w \in Workers :
        LET r == reqs[w] IN
        /\ r.op = "browse"
        /\ r.form.level # <<>> /\ r.form.style # <<>> /\ r.form.body # <<>>
        /\ Strip(r.form.q) # <<>>
        /\ r.doc.matched # {}
        /\ \E i \in DOMAIN workouts \ r.doc.matched :
              SatisfiesSupplied(workouts[i], [r.form EXCEPT !.body = <<>>])

\* the sort values workouts_browse knows
KnownSorts == {<<>>, <<"name">>, <<"recent">>, <<"rating">>, <<"favorites">>}

\* the cursor of the response has the workouts by name ascending
ByNameAscending(r) ==
    \A k \in 1..(Len(r.doc.cursor) - 1) :
        StrLeq(workouts[r.doc.cursor[k]].name, workouts[r.doc.cursor[k + 1]].name)

\* C26: browse with sort=favorites matches exactly the workouts that satisfy the
\* other supplied filters and have is_favorite true, by name ascending; with any
\* other sort value is_favorite restricts nothing, and with an unknown sort value
\* the order is by name ascending
C26_FavoritesSort ==
    \A w \in Workers :
        LET r == reqs[w] IN
        r.op = "browse" =>
           /\ r.form.sort = <<"favorites">> =>
                 /\ r.doc.matched =
                       {i \in DOMAIN workouts :
                           SatisfiesSupplied(workouts[i], r.form) /\ workouts[i].is_favorite}
                 /\ ByNameAscending(r)
           /\ r.form.sort # <<"favorites">> =>
                 /\ \A i \in DOMAIN workouts :
                       SatisfiesSupplied(workouts[i], r.form) => i \in r.doc.matched
                 /\ r.form.sort \notin KnownSorts => ByNameAscending(r)

\* sort=favorites with a level: two favorites of the level in the order of their
\* names, a workout of the level that is no favorite left out
C26_Witness ==
    \E w \in Workers :
        LET r == reqs[w] IN
        /\ r.op = "browse" /\ r.form.sort = <<"favorites">> /\ r.form.level # <<>>
        /\ Len(r.doc.cursor) = 2
        /\ StrLess(workouts[r.doc.cursor[1]].name, workouts[r.doc.cursor[2]].name)
        /\ \E i \in DOMAIN workouts \ r.doc.matched :
              SatisfiesSupplied(workouts[i], r.form) /\ ~workouts[i].is_favorite

\* the token occurs in the text, letter case aside
ContainsNoCase(text, token) ==
    \E i \in 1..Len(text) : \E j \in i..Len(text) :
        LowerStr(SubSeq(text, i, j)) = LowerStr(token)

\* a search for q alone: /search, or browse with no other filter
TextOnly(r) ==
    \/ r.op = "search" /\ r.resp = "page"
    \/ /\ r.op = "browse" /\ Strip(r.form.q) # <<>>
       /\ r.form.level = <<>> /\ r.form.style = <<>> /\ r.form.body = <<>>
       /\ r.form.sort # <<"favorites">>

\* C9: a token (of letters and digits) that occurs in no workout's name, level,
\* body_part, body_parts or style matches exactly the workouts that carry a tag
\* the token occurs in, letter case aside
C9_TagOnlyToken ==
    \A w \in Workers :
        LET r     == reqs[w]
            token == Strip(r.form.q)
        IN  ( /\ TextOnly(r)
              /\ \A k \in 1..Len(token) : token[k] \in {"a", "b", "c", "A", "B", "C", "1"}
              /\ \A i \in DOMAIN workouts :
                    \A text \in {workouts[i].name, workouts[i].level,
                                 workouts[i].body_part, workouts[i].style}
                                    \cup Elems(workouts[i].body_parts) :
                        ~ContainsNoCase(text, token) )
            => r.doc.matched =
                  {i \in DOMAIN workouts :
                      \E tag \in Elems(workouts[i].tags) : ContainsNoCase(tag, token)}

\* /search for "C": a workout tagged "c" and one tagged "a-C" match, a third does not
C9_Witness ==
    \E w \in Workers :
        LET r == reqs[w] IN
        /\ r.op = "search" /\ r.resp = "page" /\ Strip(r.form.q) = <<"C">>
        /\ \A i \in DOMAIN workouts :
              \A text \in {workouts[i].name, workouts[i].level,
                           workouts[i].body_part, workouts[i].style}
                              \cup Elems(workouts[i].body_parts) :
                  ~ContainsNoCase(text, <<"C">>)
        /\ Cardinality(r.doc.matched) = 2
        /\ \E i \in r.doc.matched : <<"c">> \in Elems(workouts[i].tags)
        /\ DOMAIN workouts \ r.doc.matched # {}

\* C10: for integer page and per_page, browse uses page' = max(page, 1) and
\* per_page' = min(max(per_page, 1), 100), returns the items of the sorted matches
\* from position (page'-1)*per_page' on, at most per_page' of them, and reports as
\* total the number of all the matching workouts
C10_Pagination ==
    \A w \in Workers :
        LET r == reqs[w] IN
        (r.op = "browse" /\ r.form.page # <<>> /\ r.form.per_page # <<>>)
        => LET page     == IF r.form.page[1] < 1 THEN 1 ELSE r.form.page[1]
               per_page == IF r.form.per_page[1] < 1 THEN 1
                           ELSE IF r.form.per_page[1] > 100 THEN 100
                           ELSE r.form.per_page[1]
               offset   == (page - 1) * per_page
               sorted   == r.doc.cursor
               items    == r.doc.items
           IN  /\ r.doc.page = page /\ r.doc.per_page = per_page
               /\ Len(items) = Max(0, Min(per_page, Len(sorted) - offset))
               /\ \A k \in 1..Len(items) : items[k]._id = sorted[offset + k]
               /\ Elems(sorted) = {i \in DOMAIN workouts : BrowseQuery(workouts[i], r.form)}
               /\ r.doc.total = Cardinality(Elems(sorted))

\* the second page of two items each, of three matches: the third match alone
C10_Witness ==
    \E w \in Workers :
        LET r == reqs[w] IN
        /\ r.op = "browse" /\ r.form.page = <<2>> /\ r.form.per_page = <<2>>
        /\ r.doc.total = 3
        /\ Len(r.doc.items) = 1
        /\ r.doc.items[1]._id = r.doc.cursor[3]

-----------------------------------------------------------------------------
(* Public: workout detail *)

\* (the same from the body_parts list alone)
RelatedPartsListOnly(w) == w.body_parts

\* parts = w.get("body_parts") or ([w.get("body_part")] if w.get("body_part") else [])
RelatedParts(w) ==
    IF w.body_parts # <<>> THEN w.body_parts
    ELSE IF w.body_part # <<>> THEN <<w.body_part>> ELSE <<>>

\* rel_q: not the slug of w, and a body part of `parts` in body_parts or the style
\* of w; with neither parts nor a style, not the slug of w
RelatedQuery(doc, w) ==
    LET parts == RelatedParts(w)
        byPart  == parts # <<>> /\ Elems(doc.body_parts) \cap Elems(parts) # {}
        byStyle == w.style # <<>> /\ doc.style = w.style
    IN  IF parts = <<>> /\ w.style = <<>>
        THEN doc.slug # w.slug
        ELSE doc.slug # w.slug /\ (byPart \/ byStyle)

\* .sort([("rating", -1), ("created_at", -1), ("name", 1)]).limit(6)
RelatedSort == << <<"rating", -1>>, <<"created_at", -1>>, <<"name", 1>> >>
RelatedLimit == 6

\* the slugs of the URLs GET /workouts/<slug> is asked for
DetailSlugs ==
    { <<"a">>, <<"b">>, <<"c">>, <<"c", "-", "1">>, <<"1">>, <<"b", "-", "1">>,
      <<"1", "-", "1">>, <<"c", "-", "c">>, <<"a", "-", "b">>, <<"-">> }

\* GET /workouts/<slug>: 404 without the workout, else the page with w and related
WorkoutDetail(w) ==
    /\ Ready(w)
    /\ \E slug \in DetailSlugs :
         LET found == {i \in DOMAIN workouts : workouts[i].slug = slug} IN
         IF found = {}
         THEN reqs' = [reqs EXCEPT ![w] =
                 Req("workout_detail", "done", 0, NoDoc, slug, NoDoc, "404", "none")]
         ELSE \E i \in found :
                LET matching == {k \in DOMAIN workouts :
                                    RelatedQuery(workouts[k], workouts[i])}
                IN  \E c \in Cursors(workouts, matching, RelatedSort) :
                      reqs' = [reqs EXCEPT ![w] =
                         Req("workout_detail", "done", i, NoDoc, slug,
                             [w |-> workouts[i] @@ [_id |-> i],
                              related |-> Items(workouts, SkipLimit(c, 0, RelatedLimit))],
                             "page", "none")]
    /\ UNCHANGED <<store, nextId, now, started>>
    /\ UNCHANGED <<sessions, failed_logins>>

\* the workouts of the initial store of the detail page, as admin_workout_new
\* builds them: body parts and a style, two alike in rating, time and name, one
\* with neither body part nor style, one with the legacy body_part alone
DetailForm(name, slug, style, body_parts, body_part, rating) ==
    [name |-> name, slug |-> slug, level |-> <<"B">>, style |-> style,
     body_parts |-> body_parts, body_part |-> body_part, tags |-> <<>>,
     is_favorite |-> FALSE, rating |-> <<Digits[rating + 1]>>]
DetailForms ==
    << DetailForm(<<"a">>, <<"a">>, <<"a">>, <<"A", ",", "b">>, <<>>, 2),
       DetailForm(<<"b">>, <<"b">>, <<"b">>, <<"b">>, <<>>, 2),
       DetailForm(<<"c">>, <<"c">>, <<"a">>, <<>>, <<>>, 1),
       DetailForm(<<"c">>, <<"c", "-", "1">>, <<"a">>, <<>>, <<>>, 1),
       DetailForm(<<"A">>, <<"1">>, <<>>, <<>>, <<>>, 3),
       DetailForm(<<"B">>, <<"b", "-", "1">>, <<"a">>, <<>>, <<"A">>, 2),
       DetailForm(<<"1">>, <<"1", "-", "1">>, <<"b">>, <<"A">>, <<>>, 0),
       DetailForm(<<"C">>, <<"c", "-", "c">>, <<"a">>, <<"c">>, <<>>, 2),
       DetailForm(<<"b">>, <<"a", "-", "b">>, <<"a">>, <<"c">>, <<>>, 3) >>
DetailTimes == <<0, 1, 1, 1, 0, 0, 0, 0, 1>>

InitDetail ==
    /\ SignedIn
    /\ \E S \in SUBSET DOMAIN DetailForms :
         workouts = [i \in S |-> WorkoutDoc(DetailForms[i], DetailTimes[i])]
    /\ styles = <<>> /\ programs = <<>> /\ home_plans = <<>>
    /\ program_weeks = <<>> /\ program_items = <<>>
    /\ nextId = Len(DetailForms) + 1
    /\ now = 1
    /\ started = 0
    /\ reqs = [w \in Workers |-> Idle]

NextDetail ==
    \/ \E w \in Workers : WorkoutDetail(w)
    \/ \E w \in Workers : Deliver(w)

SpecDetail == InitDetail /\ [][NextDetail]_vars

\* the body parts of a workout: those of its list and its legacy single one
PartsOf(doc) ==
    Elems(doc.body_parts) \cup (IF doc.body_part # <<>> THEN {doc.body_part} ELSE {})

\* the workouts other than `i` the related list is drawn from
RelatedCandidates(i) ==
    LET W == workouts[i] IN
    {k \in DOMAIN workouts \ {i} :
        \/ PartsOf(W) = {} /\ W.style = <<>>
        \/ Elems(workouts[k].body_parts) \cap PartsOf(W) # {}
        \/ W.style # <<>> /\ workouts[k].style = W.style}

\* a is not after b in the ranking: rating down, then created_at down, then name up
RankedLeq(a, b) ==
    \/ a.rating > b.rating
    \/ a.rating = b.rating /\ a.created_at > b.created_at
    \/ a.rating = b.rating /\ a.created_at = b.created_at /\ StrLeq(a.name, b.name)

\* C11: the related list of the detail page of a workout W is made of the first 6,
\* by rating descending, created_at descending and name ascending, of the workouts
\* other than W that share a body part with W (in their body_parts) or have the
\* style of W, or of all the workouts other than W when W has neither; W is not in it
C11_RelatedList ==
    \A w \in Workers :
        (reqs[w].op = "workout_detail" /\ reqs[w].resp = "page")
        => LET rel   == reqs[w].doc.related
               ids   == {rel[k]._id : k \in DOMAIN rel}
               cands == RelatedCandidates(reqs[w].id)
           IN  /\ reqs[w].id \notin ids
               /\ ids \subseteq cands
               /\ \A k \in DOMAIN rel : rel[k] = workouts[rel[k]._id] @@ [_id |-> rel[k]._id]
               /\ \A j, k \in DOMAIN rel : j # k => rel[j]._id # rel[k]._id
               /\ Len(rel) = Min(6, Cardinality(cands))
               /\ \A j, k \in DOMAIN rel : j < k => RankedLeq(rel[j], rel[k])
               /\ \A k \in DOMAIN rel : \A c \in cands \ ids :
                     RankedLeq(rel[k], workouts[c])

\* the related list of a workout with body parts and a style is cut to 6 of 7
\* candidates, found by body part and by style, and leaves a workout out
C11_Witness ==
    \E w \in Workers :
        /\ reqs[w].op = "workout_detail" /\ reqs[w].resp = "page"
        /\ reqs[w].doc.w.body_parts # <<>> /\ reqs[w].doc.w.style # <<>>
        /\ Len(reqs[w].doc.related) = 6
        /\ Cardinality(RelatedCandidates(reqs[w].id)) = 7
        /\ \E k \in DOMAIN reqs[w].doc.related :
              reqs[w].doc.related[k].style # reqs[w].doc.w.style
        /\ \E k \in DOMAIN reqs[w].doc.related :
              Elems(reqs[w].doc.related[k].body_parts)
                 \cap Elems(reqs[w].doc.w.body_parts) = {}

-----------------------------------------------------------------------------
(* Admin: the media fields of a new workout *)

\* youtube_id values of the known URL shapes, with and without scheme and www
Schemes == { <<>>, <<"h", "t", "t", "p", ":", "/", "/">>, <<"h", "t", "t", "p", "s", ":", "/", "/">> }
Wwws == { <<>>, <<"w", "w", "w", ".">> }
YoutubeUrls ==
    { <<"h", "t", "t", "p", "s", ":", "/", "/">> \o www \o shape \o <<"d", "Q", "w", "4", "w", "9", "W", "g", "X", "c", "Q">> : www \in Wwws, shape \in _YT_PREFIXES }
    \cup { scheme \o shape \o <<"a", "-", "B", "_", "c", "-", "1", "_", "A", "-", "b">> : scheme \in Schemes \ {<<"h", "t", "t", "p", "s", ":", "/", "/">>},
                                      shape \in {<<"y", "o", "u", "t", "u", ".", "b", "e", "/">>, <<"y", "o", "u", "t", "u", "b", "e", ".", "c", "o", "m", "/", "s", "h", "o", "r", "t", "s", "/">>} }

\* bare ids, a URL with a second parameter, blank values, short and long tokens,
\* a URL of another site
YoutubeOthers ==
    { <<"d", "Q", "w", "4", "w", "9", "W", "g", "X", "c", "Q">>, <<" ">> \o <<"a", "-", "B", "_", "c", "-", "1", "_", "A", "-", "b">> \o <<"\n">>,
      <<"h", "t", "t", "p", "s", ":", "/", "/">> \o <<"w", "w", "w", ".", "y", "o", "u", "t", "u", "b", "e", ".", "c", "o", "m", "/", "w", "a", "t", "c", "h", "?", "v", "=">> \o <<"d", "Q", "w", "4", "w", "9", "W", "g", "X", "c", "Q">> \o <<"&", "t", "=", "1">>,
      <<>>, <<" ", " ">>, <<"a", "b", "c">>, <<"a", " ", "b">>,
      <<"a", "b", "c", "a", "b", "c", "a", "b", "c", "a", "b", "c">>, <<"h", "t", "t", "p", "s", ":", "/", "/", "v", "i", "m", "e", "o", ".", "c", "o", "m", "/", "m", "y", "-", "w", "o", "r", "k", "o", "u", "t", "-", "v", "i", "d", "e", "o">> }

MediaBase ==
    [name |-> <<"a">>, slug |-> <<>>, level |-> <<"B">>, style |-> <<"a">>,
     body_parts |-> <<>>, body_part |-> <<>>, tags |-> <<>>,
     is_favorite |-> FALSE, rating |-> <<"1">>]

YoutubeForms == { MediaBase @@ [youtube_id |-> v] : v \in YoutubeUrls \cup YoutubeOthers }

\* a record of the fields of `fields` that were submitted (None: not submitted)
Submitted(fields) ==
    LET keys == {k \in DOMAIN fields : fields[k] # None} IN [k \in keys |-> fields[k]]

\* image forms: in slot 1 no file, an empty upload, an allowed and a disallowed
\* extension, with and without a URL; the same in short for slot 2; with and
\* without the legacy field
ImageForms ==
    { MediaBase @@ Submitted([img1_file |-> f1, img1_url |-> u1,
                              img2_file |-> s2[1], image_url_2 |-> s2[2], images |-> l]) :
        f1 \in {None, <<>>, <<"a", ".", "b", ".", "P", "n", "G">>, <<"a", ".", "e", "x", "e">>},
        u1 \in {None, <<" ", "b", ".", "c", " ">>},
        s2 \in {<<None, None>>, <<<<"b", ".", "g", "i", "f">>, <<"c">>>>},
        l  \in {None, <<"a", ",", "b">>} }
    \cup
    { MediaBase @@ [image_file_8 |-> <<"c", ".", "j", "p", "e", "g">>, img8_url |-> <<"a">>,
                    img3_url |-> <<" ">>, image_url_3 |-> <<"b">>,
                    img5_file |-> <<"a", "b", "c">>, img5_url |-> <<"c">>],
      MediaBase @@ [img4_file |-> <<"a", ".", "e", "x", "e">>, image_file_4 |-> <<"a", ".", "b", ".", "P", "n", "G">>,
                    images |-> <<"\n", "c", "\n">>],
      MediaBase @@ [img1_url |-> <<"1">>, img2_url |-> <<"1">>, img3_url |-> <<"1">>,
                    img4_url |-> <<"1">>, img5_url |-> <<"1">>, img6_url |-> <<"1">>,
                    img7_url |-> <<"1">>, img8_file |-> <<"b", ".", "g", "i", "f">>, images |-> <<"c">>] }

MediaForms == YoutubeForms \cup ImageForms

NextMedia ==
    \/ \E w \in Workers : WorkoutNewPostFrom(w, MediaForms)
    \/ \E w \in Workers : WorkoutNewInsert(w)

SpecMedia == Init /\ [][NextMedia]_vars

\* a new workout whose form passed the checks and whose document is to be inserted
Parsed(w) == reqs[w].op = "workout_new" /\ reqs[w].pc = "insert"

\* every character of s is one of a video id
IsToken(s) == \A k \in DOMAIN s : IsIdChar(s[k])

\* the last n characters of s
Last(s, n) == SubSeq(s, Len(s) - n + 1, Len(s))

\* C12: for a youtube_id value of a known URL shape (youtu.be/<id>,
\* youtube.com/watch?v=<id>, youtube.com/embed/<id>, youtube.com/shorts/<id>, with or
\* without scheme and www.) the extracted id is the 11-character <id>, and a bare
\* 11-character id is kept as it is
C12_YoutubeIdOfKnownShapes ==
    \A w \in Workers :
        (Parsed(w) /\ "youtube_id" \in DOMAIN reqs[w].form)
        => LET raw == Strip(reqs[w].form.youtube_id)
               id  == reqs[w].doc.youtube_id
           IN  /\ \A scheme \in Schemes, www \in Wwws, shape \in _YT_PREFIXES :
                     LET url == scheme \o www \o shape IN
                     (/\ Len(raw) = Len(url) + 11
                      /\ SubSeq(raw, 1, Len(url)) = url
                      /\ IsToken(Last(raw, 11)))
                     => id = Last(raw, 11)
               /\ (Len(raw) = 11 /\ IsToken(raw)) => id = raw

\* the id of a watch URL with scheme and www. has been extracted
C12_Witness ==
    \E w \in Workers :
        /\ Parsed(w) /\ "youtube_id" \in DOMAIN reqs[w].form
        /\ Len(reqs[w].form.youtube_id) = 43
        /\ SubSeq(reqs[w].form.youtube_id, 1, 12) =
              <<"h", "t", "t", "p", "s", ":", "/", "/", "w", "w", "w", ".">>
        /\ reqs[w].doc.youtube_id = Last(reqs[w].form.youtube_id, 11)
        /\ reqs[w].doc.youtube_id # reqs[w].form.youtube_id

\* s has one of the known URL shapes in it
KnownShape(s) ==
    \E p \in DOMAIN s : \E pre \in _YT_PREFIXES :
        LiteralAt(s, p, pre) /\ IdRun(s, p + Len(pre))

\* C19: a youtube_id value that is not empty and matches none of the known URL
\* shapes is stored trimmed as it is; an empty or missing value gives no id
C19_RawValueKept ==
    \A w \in Workers :
        Parsed(w)
        => LET val == FormGet(reqs[w].form, "youtube_id")
               id  == reqs[w].doc.youtube_id
           IN  IF val = None \/ val = <<>> THEN id = None
               ELSE ~KnownShape(Strip(val)) => id = Strip(val)

\* the upload of slot i of the form: the first of its two fields that has a file
UploadOf(form, i) == Or(FormGet(form, ImgFile[i]), FormGet(form, ImageFile[i]))

\* the trimmed URL of slot i of the form
UrlOf(form, i) ==
    Strip(Or(Or(FormGet(form, ImgUrl[i]), FormGet(form, ImageUrl[i])), <<>>))

\* slot i has an upload with a filename and an extension of the allow-list
Accepted(form, i) ==
    LET up == UploadOf(form, i) IN
    /\ up # None /\ up # <<>>
    /\ \E k \in DOMAIN up : up[k] = "."
    /\ \E ext \in ALLOWED_IMAGE_EXTS :
          /\ Len(up) > Len(ext)
          /\ LowerStr(Last(up, Len(ext))) = ext
          /\ up[Len(up) - Len(ext)] = "."

\* the entry is the public URL of a saved upload
IsSaved(entry) == entry # <<>> /\ entry[1] = "PUBLIC_BASE"

\* C20: the image list has at most one entry per slot 1..8, in slot order; the
\* entry of a slot with an accepted upload is the saved upload's URL, whatever its
\* URL field; a slot whose upload is empty or of a disallowed extension has no
\* upload entry; the legacy images field is used iff no slot has an entry
C20_OrderedImages ==
    \A w \in Workers :
        Parsed(w)
        => LET form   == reqs[w].form
               images == reqs[w].doc.images
               legacy == FormGet(form, "images")
               filled == {i \in Slots : Accepted(form, i) \/ UrlOf(form, i) # <<>>}
               slot(k) == CHOOSE i \in filled : Cardinality({j \in filled : j <= i}) = k
           IN  IF filled = {}
               THEN images = _split_list(IF legacy = None THEN <<>> ELSE legacy)
               ELSE /\ Len(images) = Cardinality(filled)
                    /\ \A k \in DOMAIN images :
                          IF Accepted(form, slot(k))
                          THEN IsSaved(images[k]) /\ images[k] # UrlOf(form, slot(k))
                          ELSE images[k] = UrlOf(form, slot(k))
                    /\ \A j, k \in DOMAIN images :
                          (j # k /\ IsSaved(images[j])) => images[j] # images[k]

\* a form with an accepted upload and a URL in slot 1 and in slot 2, and the
\* legacy field: two entries, the two saved uploads
C20_Witness ==
    \E w \in Workers :
        /\ Parsed(w)
        /\ Accepted(reqs[w].form, 1) /\ UrlOf(reqs[w].form, 1) # <<>>
        /\ Accepted(reqs[w].form, 2) /\ UrlOf(reqs[w].form, 2) # <<>>
        /\ FormGet(reqs[w].form, "images") # None
        /\ Len(reqs[w].doc.images) = 2
        /\ IsSaved(reqs[w].doc.images[1]) /\ IsSaved(reqs[w].doc.images[2])

-----------------------------------------------------------------------------
(* Styles: the seed, the dynamic list, toggle and delete *)

DEFAULT_WORKOUT_STYLES ==
    << <<"B", "o", "d", "y", "W", "e", "i", "g", "h", "t">>,
       <<"B", "a", "r", "b", "e", "l", "l">>,
       <<"D", "u", "m", "b", "b", "e", "l", "l">>,
       <<"K", "e", "t", "t", "l", "e", "b", "e", "l", "l">>,
       <<"R", "e", "s", "i", "s", "t", "a", "n", "c", "e", " ", "B", "a", "n", "d", "s">>,
       <<"M", "a", "c", "h", "i", "n", "e", "s">>,
       <<"C", "a", "l", "i", "s", "t", "h", "e", "n", "i", "c", "s">>,
       <<"C", "a", "r", "d", "i", "o", "/", "E", "n", "d", "u", "r", "a", "n", "c", "e">>,
       <<"P", "l", "y", "o", "m", "e", "t", "r", "i", "c", "/", "E", "x", "p", "l", "o", "s", "i", "v", "e">>,
       <<"C", "r", "o", "s", "s", "F", "i", "t", "/", "F", "u", "n", "c", "t", "i", "o", "n", "a", "l">>,
       <<"Y", "o", "g", "a", "/", "M", "o", "b", "i", "l", "i", "t", "y">> >>

\* the documents _ensure_style_seed_once inserts into an empty collection
StyleSeed ==
    [i \in DOMAIN DEFAULT_WORKOUT_STYLES |->
        [name |-> DEFAULT_WORKOUT_STYLES[i], slug |-> slugify(DEFAULT_WORKOUT_STYLES[i]),
         order |-> i - 1, active |-> TRUE]]

\* s.get("active", True)
ActiveOf(s) == IF "active" \in DOMAIN s THEN s.active ELSE TRUE

\* get_styles(): the lists it can return, the names of the styles whose active is
\* not False by order and name, or the default names when there is none
get_styles ==
    LET matching == {k \in DOMAIN styles : ActiveOf(styles[k]) # FALSE} IN
    IF matching # {}
    THEN { [k \in DOMAIN c |-> styles[c[k]].name] :
             c \in Cursors(styles, matching, << <<"order", 1>>, <<"name", 1>> >>) }
    ELSE { DEFAULT_WORKOUT_STYLES }

\* (the same always deactivating)
StyleDeactivate(s) == [active |-> FALSE]

\* {"$set": {"active": not s.get("active", True)}}
StyleToggleSet(s) == [active |-> ~ActiveOf(s)]

\* POST /admin/styles/<id>/toggle up to the find_one: 404 without the style.
\* `chained` records that the request this worker served last was a toggle of
\* the same style and that the style is as that toggle left it; `first` is then
\* the style as that toggle found it.
StyleTogglePost(w) ==
    /\ Free(w)
    /\ \E id \in Targets(styles) :
         LET prev    == reqs[w]
             chained == /\ id \in DOMAIN styles
                        /\ prev.op = "style_toggle" /\ prev.resp = "redirect"
                        /\ prev.id = id
                        /\ styles[id] = prev.doc.after
         IN  reqs' = [reqs EXCEPT ![w] =
                IF id \notin DOMAIN styles
                THEN Req("style_toggle", "done", id, NoDoc, <<>>, NoDoc, "404", "none")
                ELSE Req("style_toggle", "update", id, NoDoc, <<>>,
                         [s |-> styles[id], chained |-> chained,
                          first |-> IF chained THEN prev.doc.s ELSE NoDoc,
                          after |-> NoDoc],
                         "none", "none")]
    /\ started' = started + 1
    /\ UNCHANGED <<store, nextId, now>>
    /\ UNCHANGED <<sessions, failed_logins>>

\* db.styles.update_one({"_id": s["_id"]}, {"$set": ...}), with no try/except
\* around it; a style deleted since the find_one is matched by nothing
StyleToggleUpdate(w) ==
    /\ reqs[w].op = "style_toggle" /\ reqs[w].pc = "update"
    /\ \E fault \in BOOLEAN :
         LET r == reqs[w] IN
         IF fault
         THEN /\ reqs' = [reqs EXCEPT ![w] =
                    [r EXCEPT !.pc = "done", !.resp = "500", !.raised = "StoreError"]]
              /\ UNCHANGED styles
         ELSE /\ styles' = IF r.id \in DOMAIN styles
                           THEN SetFields(styles, r.id, StyleToggleSet(r.doc.s))
                           ELSE styles
              /\ reqs' = [reqs EXCEPT ![w] =
                    [r EXCEPT !.pc = "done", !.resp = "redirect",
                              !.flash = IF ~ActiveOf(r.doc.s) THEN "activated"
                                        ELSE "deactivated",
                              !.doc.after = IF r.id \in DOMAIN styles
                                            THEN styles'[r.id] ELSE NoDoc]]
    /\ UNCHANGED <<workouts, programs, home_plans, program_weeks, program_items,
                   nextId, now, started>>
    /\ UNCHANGED <<sessions, failed_logins>>

\* POST /admin/styles/<id>/delete: delete_one with no lookup and no try/except
StyleDelete(w) ==
    /\ Free(w)
    /\ \E id \in Targets(styles) : \E fault \in BOOLEAN :
         LET r == Req("style_delete", "done", id, NoDoc, <<>>, NoDoc, "none", "none") IN
         IF fault
         THEN /\ reqs' = [reqs EXCEPT ![w] = Uncaught(r, "StoreError")]
              /\ UNCHANGED styles
         ELSE /\ styles' = Delete(styles, {id})
              /\ reqs' = [reqs EXCEPT ![w] = Done(r, "redirect", "deleted")]
    /\ started' = started + 1
    /\ UNCHANGED <<workouts, programs, home_plans, program_weeks, program_items,
                   nextId, now>>
    /\ UNCHANGED <<sessions, failed_logins>>

\* the seeded styles that are left of the seed when the model starts
SeedLeft == 1..2

InitStyles ==
    /\ SignedIn
    /\ \E S \in SUBSET SeedLeft : styles = [i \in S |-> StyleSeed[i]]
    /\ workouts = <<>> /\ programs = <<>> /\ home_plans = <<>>
    /\ program_weeks = <<>> /\ program_items = <<>>
    /\ nextId = Len(DEFAULT_WORKOUT_STYLES) + 1
    /\ now = 0
    /\ started = 0
    /\ reqs = [w \in Workers |-> Idle]

NextStyles ==
    \/ \E w \in Workers : StyleAddPost(w)
    \/ \E w \in Workers : StyleAddInsert(w)
    \/ \E w \in Workers : StyleTogglePost(w)
    \/ \E w \in Workers : StyleToggleUpdate(w)
    \/ \E w \in Workers : StyleDelete(w)

SpecStyles == InitStyles /\ [][NextStyles]_vars

\* the fields of a style other than its active flag
OtherFields(s) == [f \in DOMAIN s \ {"active"} |-> s[f]]

\* C13: when the second of two toggle requests in a row on one style, the style
\* being as the first left it, has written, the active flag of the style is what
\* it was before the first toggle (no flag counting as active), and its other
\* fields are unchanged; the write of a toggle changes no other style
C13_ToggleTwice ==
    [][\A w \in Workers :
         (/\ reqs[w].op = "style_toggle" /\ reqs[w].pc = "update"
          /\ reqs'[w].resp = "redirect"
          /\ reqs[w].id \in DOMAIN styles)
         => /\ DOMAIN styles' = DOMAIN styles
            /\ \A k \in DOMAIN styles \ {reqs[w].id} : styles'[k] = styles[k]
            /\ OtherFields(styles'[reqs[w].id]) = OtherFields(styles[reqs[w].id])
            /\ reqs[w].doc.chained
                  => /\ ActiveOf(styles'[reqs[w].id]) = ActiveOf(reqs[w].doc.first)
                     /\ OtherFields(styles'[reqs[w].id]) = OtherFields(reqs[w].doc.first)
      ]_vars

\* the second of two toggles in a row has put an active style back to active,
\* next to another style
C13_Witness ==
    \E w \in Workers :
        /\ reqs[w].op = "style_toggle" /\ reqs[w].resp = "redirect"
        /\ reqs[w].doc.chained
        /\ reqs[w].doc.first.active /\ ~reqs[w].doc.s.active
        /\ reqs[w].id \in DOMAIN styles /\ styles[reqs[w].id] = reqs[w].doc.first
        /\ styles[reqs[w].id] = reqs[w].doc.after
        /\ Cardinality(DOMAIN styles) > 1

\* C14: the name of a style whose active flag is false is in no list get_styles
\* returns
C14_InactiveNotListed ==
    \A k \in DOMAIN styles :
        styles[k].active = FALSE
        => \A list \in get_styles : \A i \in DOMAIN list : list[i] # styles[k].name

-----------------------------------------------------------------------------
(* Sessions: login, logout and the admin routes without a session *)

ADMIN_USERNAME == <<"a", "d", "m", "i", "n">>
ADMIN_PASSWORD == <<"c", "h", "a", "n", "g", "e", "m", "e">>

\* _check_admin_credentials, the password hash standing for its password
_check_admin_credentials(username, password) ==
    username = ADMIN_USERNAME /\ password = ADMIN_PASSWORD

\* limit and window_sec of _allowed_login_attempt
LoginLimit == 5
LoginWindow == 900

\* (the same dropping no timestamp)
PopNone(dq, t) == dq

\* while dq and now - dq[0] > window_sec: dq.popleft()
RECURSIVE PopOld(_, _)
PopOld(dq, t) ==
    IF dq # <<>> /\ t - Head(dq) > LoginWindow THEN PopOld(Tail(dq), t) ELSE dq

\* (the same letting every attempt through)
AllowedAlways(dq, t) == TRUE

\* _allowed_login_attempt(ip) at time t, dq being FAILED_LOGINS.get(ip), no entry
\* standing for the empty deque
_allowed_login_attempt(dq, t) == Len(PopOld(dq, t)) < LoginLimit

\* the forms submitted to POST /login
LoginForms ==
    { [username |-> <<"a", "d", "m", "i", "n">>, password |-> <<"c", "h", "a", "n", "g", "e", "m", "e">>],
      [username |-> <<" ">> \o <<"a", "d", "m", "i", "n">>, password |-> <<"c", "h", "a", "n", "g", "e", "m", "e">> \o <<"\n">>],
      [username |-> <<"a", "d", "m", "i", "n">>, password |-> <<"a">>],
      [username |-> <<"a">>, password |-> <<"c", "h", "a", "n", "g", "e", "m", "e">>] }

\* POST /login with the session cookie of client c, from the address
\* _client_ip() gives (the address of a client, its own or the one its
\* X-Forwarded-For header names); the record keeps the deque as the request
\* found it
Login(w) ==
    /\ Accept(w)
    /\ \E c \in Clients, ip \in Clients, form \in LoginForms :
         LET dq       == PopOld(failed_logins[ip], now)
             username == Strip(form.username)
             password == Strip(form.password)
             r(resp, flash) == Req("login", "done", 0, form, <<>>,
                                   [ip |-> ip, client |-> c,
                                    found |-> failed_logins[ip]], resp, flash)
         IN  IF ~_allowed_login_attempt(failed_logins[ip], now)
             THEN /\ reqs' = [reqs EXCEPT ![w] = r("form", "too_many")]
                  /\ failed_logins' = [failed_logins EXCEPT ![ip] = dq]
                  /\ UNCHANGED sessions
             ELSE IF _check_admin_credentials(username, password)
             THEN /\ reqs' = [reqs EXCEPT ![w] = r("redirect", "logged_in")]
                  /\ failed_logins' = [failed_logins EXCEPT ![ip] = <<>>]
                  /\ sessions' = [sessions EXCEPT ![c] = TRUE]
             ELSE /\ reqs' = [reqs EXCEPT ![w] = r("form", "invalid")]
                  /\ failed_logins' = [failed_logins EXCEPT ![ip] = Append(dq, now)]
                  /\ UNCHANGED sessions
    /\ started' = started + 1
    /\ UNCHANGED <<store, nextId, now>>

\* POST /logout
Logout(w) ==
    /\ Accept(w)
    /\ \E c \in Clients :
         /\ login_required(c)
         /\ sessions' = [sessions EXCEPT ![c] = FALSE]
    /\ reqs' = [reqs EXCEPT ![w] =
          Req("logout", "done", 0, NoDoc, <<>>, NoDoc, "redirect", "logged_out")]
    /\ started' = started + 1
    /\ UNCHANGED <<store, nextId, now, failed_logins>>

\* the admin routes of the model
AdminOps ==
    {"workout_new", "workout_edit", "workout_delete", "style_add", "style_toggle",
     "style_delete", "program_new", "program_edit", "program_delete",
     "home_plan_new", "home_plan_edit", "logout"}

\* a request to an admin route from a client that @login_required turns away:
\* the redirect to the login page
LoginRedirect(w) ==
    /\ Accept(w)
    /\ \E c \in Clients : ~login_required(c)
    /\ \E op \in AdminOps :
         reqs' = [reqs EXCEPT ![w] =
            Req(op, "done", 0, NoDoc, <<>>, NoDoc, "login", "please_sign_in")]
    /\ started' = started + 1
    /\ UNCHANGED <<store, nextId, now, sessions, failed_logins>>

InitAuth ==
    /\ sessions = [c \in Clients |-> FALSE]
    /\ failed_logins = [c \in Clients |-> <<>>]
    /\ EmptyStore
    /\ nextId = 1
    /\ now = 0
    /\ started = 0
    /\ reqs = [w \in Workers |-> Idle]

NextAuth ==
    \/ \E w \in Workers : Login(w)
    \/ \E w \in Workers : Logout(w)
    \/ \E w \in Workers : LoginRedirect(w)
    \/ \E w \in Workers : WorkoutNewPost(w)
    \/ \E w \in Workers : WorkoutNewInsert(w)
    \/ \E w \in Workers : WorkoutDelete(w)
    \/ Tick

SpecAuth == InitAuth /\ [][NextAuth]_vars

\* worker w takes a request in this step
Receives(w) == Accept(w) /\ started' = started + 1

\* C18: a step that changes a content collection is a step of a request that was
\* taken from a client with an admin session; a request to an admin route is
\* taken from a client with an admin session or sent to the login page; and a
\* session becomes an admin session only in a login POST whose trimmed username
\* and password pass the credential check
C18_WritesNeedSession ==
    [][/\ store' # store
          => \E w \in Workers :
                /\ reqs'[w].op \in AdminOps
                /\ \/ Receives(w) /\ \E c \in Clients : sessions[c]
                   \/ reqs[w].pc # "done" /\ reqs'[w] # reqs[w]
       /\ \A w \in Workers :
             (Receives(w) /\ reqs'[w].op \in AdminOps /\ reqs'[w].resp # "login")
             => \E c \in Clients : sessions[c]
       /\ \A c \in Clients :
             (sessions'[c] /\ ~sessions[c])
             => \E w \in Workers :
                   /\ Receives(w) /\ reqs'[w].op = "login"
                   /\ Strip(reqs'[w].form.username) = ADMIN_USERNAME
                   /\ Strip(reqs'[w].form.password) = ADMIN_PASSWORD
      ]_vars

\* after a login a workout was created, and the admin has logged out
C18_Witness ==
    /\ workouts # <<>>
    /\ \A c \in Clients : ~sessions[c]
    /\ \E w \in Workers : reqs[w].op = "logout"

-----------------------------------------------------------------------------
(* Properties of the error paths *)

\* C15: a store exception raised by a write of an admin handler (a step of the
\* program-delete cascade included) is caught in the handler and flashed in a
\* normal response, not answered with the 500 page
C15_StoreErrorsFlashed ==
    \A w \in Workers :
        reqs[w].raised \in {"StoreError", "DuplicateKeyError"}
        => reqs[w].resp # "500" /\ reqs[w].flash = "error"

\* the collection an admin route looks its identifier up in
CollectionOf(op) ==
    CASE op \in {"workout_edit", "workout_delete"} -> workouts
      [] op \in {"style_toggle", "style_delete"} -> styles
      [] op \in {"program_edit", "program_delete"} -> programs
      [] op \in {"home_plan_edit"} -> home_plans

\* the routes of the model that address a document by its identifier
IdOps ==
    {"workout_edit", "workout_delete", "style_toggle", "style_delete",
     "program_edit", "program_delete", "home_plan_edit"}

\* C16: a request that addresses a document by an identifier or a slug that is
\* not in the store is answered with the 404 page and changes no collection
C16_UnknownIs404 ==
    [][\A w \in Workers :
         /\ (/\ Receives(w) /\ reqs'[w].op \in IdOps
             /\ reqs'[w].id \notin DOMAIN CollectionOf(reqs'[w].op)
             /\ reqs'[w].raised = "none")
            => reqs'[w].resp = "404" /\ store' = store
         /\ (/\ Ready(w) /\ reqs'[w].op = "workout_detail"
             /\ \A k \in DOMAIN workouts : workouts[k].slug # reqs'[w].slug)
            => reqs'[w].resp = "404" /\ store' = store
      ]_vars

\* the required field of a submitted form: the name of a workout, the title of a
\* program or a home plan
RequiredField(form) == IF "name" \in DOMAIN form THEN form.name ELSE form.title

\* C17: a create or edit request whose required field is blank after trimming
\* writes nothing and is answered with the form and the submitted values, not
\* with an error status
C17_BlankRequiredField ==
    [][\A w \in Workers :
         (/\ Receives(w)
          /\ reqs'[w].op \in {"workout_new", "workout_edit", "program_new",
                              "program_edit", "home_plan_new", "home_plan_edit"}
          /\ DOMAIN reqs'[w].form # {}
          /\ Strip(RequiredField(reqs'[w].form)) = <<>>)
         => /\ store' = store
            /\ reqs'[w].pc = "done" /\ reqs'[w].resp = "form"
      ]_vars

-----------------------------------------------------------------------------
(* Styles in use: workouts of a style that is toggled or deleted *)

\* workouts of the first two default styles
StyledForms ==
    << [WorkoutForm(<<"a">>, <<>>) EXCEPT !.style = DEFAULT_WORKOUT_STYLES[1]],
       [WorkoutForm(<<"b">>, <<>>) EXCEPT !.style = DEFAULT_WORKOUT_STYLES[2]],
       [WorkoutForm(<<"c">>, <<>>) EXCEPT !.style = DEFAULT_WORKOUT_STYLES[1]] >>

\* browse filtered on a style, on none, and on a style with a level
StyleBrowseArgs ==
    [level : {NoText, <<"B">>},
     style : {NoText, DEFAULT_WORKOUT_STYLES[1], DEFAULT_WORKOUT_STYLES[2]},
     body : {NoText}, q : {NoText}, sort : {<<>>}, page : {<<>>}, per_page : {<<>>}]

InitStyleUse ==
    /\ SignedIn
    /\ \E S \in SUBSET SeedLeft : styles = [i \in S |-> StyleSeed[i]]
    /\ \E S \in SUBSET DOMAIN StyledForms :
         workouts = [i \in S |-> WorkoutDoc(StyledForms[i], 0)]
    /\ programs = <<>> /\ home_plans = <<>>
    /\ program_weeks = <<>> /\ program_items = <<>>
    /\ nextId = Len(DEFAULT_WORKOUT_STYLES) + 1
    /\ now = 0
    /\ started = 0
    /\ reqs = [w \in Workers |-> Idle]

NextStyleUse ==
    \/ \E w \in Workers : StyleTogglePost(w)
    \/ \E w \in Workers : StyleToggleUpdate(w)
    \/ \E w \in Workers : StyleDelete(w)
    \/ \E w \in Workers : BrowseFrom(w, StyleBrowseArgs)
    \/ \E w \in Workers : Deliver(w)

SpecStyleUse == InitStyleUse /\ [][NextStyleUse]_vars

\* C21: a step of admin style toggle or admin style delete changes no workout, and
\* browse filtered on a style value matches every workout of that style string (and
\* of the other supplied filter), whether a style of that name is active, inactive
\* or deleted
C21_StyleChangeKeepsWorkouts ==
    [][/\ \A w \in Workers :
             (reqs'[w] # reqs[w] /\ reqs'[w].op \in {"style_toggle", "style_delete"})
             => workouts' = workouts
       /\ \A w \in Workers :
             (Ready(w) /\ reqs'[w].op = "browse" /\ reqs'[w].form.style # <<>>)
             => reqs'[w].doc.matched =
                   {k \in DOMAIN workouts :
                       /\ workouts[k].style = reqs'[w].form.style
                       /\ reqs'[w].form.level # <<>>
                             => workouts[k].level = reqs'[w].form.level}
      ]_vars

\* browse on a style has matched two workouts while the style of that name is
\* inactive, after its toggle
C21_Witness ==
    \E w, v \in Workers :
        /\ reqs[w].op = "browse" /\ reqs[w].form.style # <<>>
        /\ Cardinality(reqs[w].doc.matched) = 2
        /\ \E k \in DOMAIN styles :
              styles[k].name = reqs[w].form.style /\ ~styles[k].active
        /\ reqs[v].op = "style_toggle" /\ reqs[v].resp = "redirect"

-----------------------------------------------------------------------------
(* Startup: the style seed, in processes that share the store *)

\* (the same seeding whatever the collection holds)
CountIgnored(coll) == TRUE

\* db.styles.count_documents({}) == 0
CountIsZero(coll) == DOMAIN coll = {}

\* the except clause of _ensure_style_seed_once: a warning is logged and startup
\* goes on
SeedSkipped(r, exc) == [Done(r, "skipped", "warning") EXCEPT !.raised = exc]

\* a process starts: _ensure_style_seed_once up to the count
SeedCount(w) ==
    /\ Accept(w)
    /\ \E fault \in BOOLEAN :
         LET r == Req("seed", "insert_many", 1, NoDoc, <<>>, NoDoc, "none", "none") IN
         reqs' = [reqs EXCEPT ![w] =
            IF fault THEN SeedSkipped(r, "StoreError")
            ELSE IF CountIsZero(styles) /\ Len(StyleSeed) > 0 THEN r
            ELSE Done(r, "kept", "none")]
    /\ started' = started + 1
    /\ UNCHANGED <<store, nextId, now>>
    /\ UNCHANGED <<sessions, failed_logins>>

\* insert_many(docs), ordered: the store inserts the next document of the list, and
\* stops at the first one it refuses
SeedInsert(w) ==
    /\ reqs[w].op = "seed" /\ reqs[w].pc = "insert_many"
    /\ \E fault \in BOOLEAN :
         LET i == reqs[w].id IN
         IF fault
         THEN /\ reqs' = [reqs EXCEPT ![w] = SeedSkipped(@, "StoreError")]
              /\ UNCHANGED <<styles, nextId>>
         ELSE IF ~UniqueSlugIndex(styles, nextId, StyleSeed[i].slug)
         THEN /\ reqs' = [reqs EXCEPT ![w] = SeedSkipped(@, "DuplicateKeyError")]
              /\ UNCHANGED <<styles, nextId>>
         ELSE /\ styles' = Insert(styles, nextId, StyleSeed[i])
              /\ nextId' = nextId + 1
              /\ reqs' = [reqs EXCEPT ![w] =
                    IF i = Len(StyleSeed) THEN Done(@, "seeded", "none")
                    ELSE [@ EXCEPT !.id = i + 1]]
    /\ UNCHANGED <<workouts, programs, home_plans, program_weeks, program_items,
                   now, started>>
    /\ UNCHANGED <<sessions, failed_logins>>

\* the store before the first process starts, or with what an earlier run and the
\* admin have left in it
InitSeed ==
    /\ SignedIn
    /\ \E S \in SUBSET SeedLeft : styles = [i \in S |-> StyleSeed[i]]
    /\ workouts = <<>> /\ programs = <<>> /\ home_plans = <<>>
    /\ program_weeks = <<>> /\ program_items = <<>>
    /\ nextId = Len(DEFAULT_WORKOUT_STYLES) + 1
    /\ now = 0
    /\ started = 0
    /\ reqs = [w \in Workers |-> Idle]

NextSeed ==
    \/ \E w \in Workers : SeedCount(w)
    \/ \E w \in Workers : SeedInsert(w)
    \/ \E w \in Workers : StyleDelete(w)

SpecSeed == InitSeed /\ [][NextSeed]_vars

\* no two style documents have the same slug
NoSlugTwice ==
    \A j, k \in DOMAIN styles : styles[j].slug = styles[k].slug => j = k

\* C22: a startup that counts a collection holding a document changes nothing and
\* is over; a step of a startup changes the styles only by inserting the document
\* of the next default name (order its position counted from 0, active true), the
\* one after the last being the end of the seed; no two style documents ever have
\* the same slug, with startups one after another or two at a time; and a startup
\* ends seeded, kept or skipped with a warning, never with an error
C22_SeedOnce ==
    [][/\ NoSlugTwice /\ NoSlugTwice'
       /\ \A w \in Workers :
             (reqs'[w] # reqs[w] /\ reqs'[w].op = "seed") =>
                /\ reqs'[w].pc = "done" => reqs'[w].resp \in {"seeded", "kept", "skipped"}
                /\ (Accept(w) /\ started' = started + 1) =>
                      /\ styles' = styles
                      /\ DOMAIN styles # {} => reqs'[w].pc = "done"
                      /\ (DOMAIN styles = {} /\ reqs'[w].pc = "done")
                            => reqs'[w].raised = "StoreError"
                      /\ reqs'[w].pc # "done" => reqs'[w].id = 1
                /\ ~(Accept(w) /\ started' = started + 1) =>
                      LET i == reqs[w].id IN
                      /\ styles' # styles =>
                            /\ styles' = Insert(styles, nextId,
                                  [name |-> DEFAULT_WORKOUT_STYLES[i],
                                   slug |-> slugify(DEFAULT_WORKOUT_STYLES[i]),
                                   order |-> i - 1, active |-> TRUE])
                            /\ nextId \notin DOMAIN styles
                            /\ IF i = Len(DEFAULT_WORKOUT_STYLES)
                               THEN reqs'[w].resp = "seeded"
                               ELSE reqs'[w].pc # "done" /\ reqs'[w].id = i + 1
                      /\ styles' = styles => reqs'[w].resp = "skipped"
      ]_vars

\* two startups at a time on an empty collection are over: one has inserted the
\* eleven styles, the other was refused by the unique index and skipped
C22_Witness ==
    \E w, v \in Workers :
        /\ reqs[w].op = "seed" /\ reqs[w].resp = "seeded"
        /\ reqs[v].op = "seed" /\ reqs[v].raised = "DuplicateKeyError"
        /\ Cardinality(DOMAIN styles) = Len(DEFAULT_WORKOUT_STYLES)
        /\ \A i \in DOMAIN DEFAULT_WORKOUT_STYLES :
              \E k \in DOMAIN styles : styles[k].name = DEFAULT_WORKOUT_STYLES[i]

-----------------------------------------------------------------------------
(* The shape of the stored slugs *)

\* forms of POST /admin/workouts/new: a submitted slug with a capital and a space,
\* a name of punctuation only, a blank slug field, a slug that is already one
SlugShapeForms ==
    { WorkoutForm(<<"c">>, <<"A", " ", "b">>),
      WorkoutForm(<<"-">>, <<>>),
      WorkoutForm(<<"A", " ", "b">>, <<" ">>),
      WorkoutForm(<<"c">>, <<"a", "-", "1">>) }

NextSlugShape ==
    \/ \E w \in Workers : WorkoutNewPostFrom(w, SlugShapeForms)
    \/ \E w \in Workers : WorkoutNewInsert(w)
    \/ \E w \in Workers : StyleAddPost(w)
    \/ \E w \in Workers : StyleAddInsert(w)

SpecSlugShape == Init /\ [][NextSlugShape]_vars

\* a non-empty text of lowercase letters, digits and hyphens
UrlSafe(slug) ==
    /\ slug # <<>>
    /\ \A i \in DOMAIN slug : IsSlugChar(slug[i]) \/ slug[i] = "-"

\* C23: every slug stored by admin create of a workout and by admin style add is
\* non-empty and made of lowercase letters, digits and hyphens only
C23_StoredSlugsUrlSafe ==
    /\ \A k \in DOMAIN workouts : UrlSafe(workouts[k].slug)
    /\ \A k \in DOMAIN styles : UrlSafe(styles[k].slug)

-----------------------------------------------------------------------------
(* The login throttle *)

\* the failures an address has on record when the model starts, all of time 0:
\* none, one fewer than the limit, the limit
PastFailures ==
    { <<>>, [i \in 1..(LoginLimit - 1) |-> 0], [i \in 1..LoginLimit |-> 0] }

\* the failures of time 0 are as old as the window is long
InitThrottle ==
    /\ sessions = [c \in Clients |-> FALSE]
    /\ failed_logins \in [Clients -> PastFailures]
    /\ EmptyStore
    /\ nextId = 1
    /\ now = LoginWindow
    /\ started = 0
    /\ reqs = [w \in Workers |-> Idle]

\* time.time() has advanced by a second
Later ==
    /\ now < LoginWindow + MaxTime
    /\ now' = now + 1
    /\ UNCHANGED <<store, nextId, started, reqs>>
    /\ UNCHANGED <<sessions, failed_logins>>

NextThrottle ==
    \/ \E w \in Workers : Login(w)
    \/ Later

SpecThrottle == InitThrottle /\ [][NextThrottle]_vars

\* time does not stop
SpecThrottleLive == SpecThrottle /\ WF_vars(Later)

\* the number of the recorded failures that are at most the window old at time t
Recent(dq, t) == Cardinality({i \in DOMAIN dq : t - dq[i] <= LoginWindow})

\* C24: a login POST from an address with 5 or more failures recorded in the last
\* 900 seconds is answered with the form and the too-many message, whatever the
\* credentials: no session changes and the address has no more failures on record
\* than before; a login POST is rejected so only for the failures of its own
\* address, and changes the record of no other address
C24_LockedOutRejected ==
    [][\A w \in Workers :
         (Receives(w) /\ reqs'[w].op = "login") =>
            LET ip == reqs'[w].doc.ip IN
            /\ Recent(failed_logins[ip], now) >= LoginLimit =>
                  /\ reqs'[w].resp = "form" /\ reqs'[w].flash = "too_many"
                  /\ sessions' = sessions
                  /\ Len(failed_logins'[ip]) <= Len(failed_logins[ip])
                  /\ Recent(failed_logins'[ip], now) = Recent(failed_logins[ip], now)
            /\ reqs'[w].flash = "too_many" => Recent(failed_logins[ip], now) >= LoginLimit
            /\ \A a \in Clients \ {ip} : failed_logins'[a] = failed_logins[a]
      ]_vars

\* a login with the right credentials was rejected from a locked-out address and
\* has left its session as it was, while a client has signed in from the other
\* address
C24_Witness ==
    \E w \in Workers : \E c \in Clients :
        /\ reqs[w].op = "login" /\ reqs[w].flash = "too_many"
        /\ _check_admin_credentials(Strip(reqs[w].form.username),
                                    Strip(reqs[w].form.password))
        /\ ~sessions[reqs[w].doc.client]
        /\ Recent(failed_logins[reqs[w].doc.ip], now) >= LoginLimit
        /\ sessions[c]
        /\ \A a \in Clients \ {reqs[w].doc.ip} : failed_logins[a] = <<>>

\* the address has the limit of recent failures on record
LockedOut(ip) == Recent(failed_logins[ip], now) >= LoginLimit

\* C25: a login POST from an address with fewer than 5 failures recorded in the
\* last 900 seconds is evaluated against the credentials (it signs in or is
\* answered invalid credentials, never too many attempts), whatever was attempted
\* from the address while it was locked out; a login that signs in leaves no
\* failure of its address on record; and, time advancing, an address that is
\* locked out comes to be not locked out
C25_LockoutEnds ==
    /\ [][\A w \in Workers :
            (Receives(w) /\ reqs'[w].op = "login") =>
               LET ip == reqs'[w].doc.ip
                   ok == _check_admin_credentials(Strip(reqs'[w].form.username),
                                                  Strip(reqs'[w].form.password))
               IN
               /\ Recent(failed_logins[ip], now) < LoginLimit =>
                     /\ reqs'[w].flash = IF ok THEN "logged_in" ELSE "invalid"
                     /\ ok => sessions'[reqs'[w].doc.client]
               /\ reqs'[w].flash = "logged_in" => failed_logins'[ip] = <<>>
         ]_vars
    /\ \A ip \in Clients : LockedOut(ip) ~> ~LockedOut(ip)

\* a login from an address that was locked out a second before, all its failures
\* being older than the window now, has signed in and cleared the record
C25_Witness ==
    \E w \in Workers :
        /\ reqs[w].op = "login" /\ reqs[w].flash = "logged_in"
        /\ Len(reqs[w].doc.found) >= LoginLimit
        /\ failed_logins[reqs[w].doc.ip] = <<>>
        /\ sessions[reqs[w].doc.client]
        /\ now > LoginWindow

-----------------------------------------------------------------------------
(* Public program pages and the program toggles *)

\* (the same with no condition on active)
PublicAll(p) == TRUE

\* {"active": {"$ne": False}}
PublicQuery(p) == IF "active" \in DOMAIN p THEN p.active # FALSE ELSE TRUE

\* the sort of home and programs_index
ProgramSort == << <<"order", 1>>, <<"created_at", -1>> >>

FeaturedLimit == 6
ProgramsLimit == 100

\* GET /: the featured programs
Home(w) ==
    /\ Ready(w)
    /\ LET matching == {i \in DOMAIN programs :
                           PublicQuery(programs[i]) /\ programs[i].show_on_home = TRUE}
       IN  \E c \in Cursors(programs, matching, ProgramSort) :
             reqs' = [reqs EXCEPT ![w] =
                Req("home", "done", 0, NoDoc, <<>>,
                    [items |-> Items(programs, SkipLimit(c, 0, FeaturedLimit))],
                    "page", "none")]
    /\ UNCHANGED <<store, nextId, now, started>>
    /\ UNCHANGED <<sessions, failed_logins>>

\* GET /programs
ProgramsIndex(w) ==
    /\ Ready(w)
    /\ LET matching == {i \in DOMAIN programs : PublicQuery(programs[i])}
       IN  \E c \in Cursors(programs, matching, ProgramSort) :
             reqs' = [reqs EXCEPT ![w] =
                Req("programs_index", "done", 0, NoDoc, <<>>,
                    [items |-> Items(programs, SkipLimit(c, 0, ProgramsLimit))],
                    "page", "none")]
    /\ UNCHANGED <<store, nextId, now, started>>
    /\ UNCHANGED <<sessions, failed_logins>>

\* the slugs asked of /programs/<slug>: of the first and the last program, of none
ProgramSlugs == {<<"p", "1">>, <<"p", "9">>, <<"x">>}

\* GET /programs/<slug>: find_one on the slug among the public programs, 404
\* without one; the weeks of the program, which no write of this part changes,
\* are read in the same step
ProgramDetail(w) ==
    /\ Ready(w)
    /\ \E slug \in ProgramSlugs :
         LET found == {i \in DOMAIN programs :
                          programs[i].slug = slug /\ PublicQuery(programs[i])}
         IN  IF found = {}
             THEN reqs' = [reqs EXCEPT ![w] =
                     Req("program_detail", "done", 0, NoDoc, slug, NoDoc, "404", "none")]
             ELSE \E i \in found :
                    reqs' = [reqs EXCEPT ![w] =
                       Req("program_detail", "done", 0, NoDoc, slug,
                           [program |-> programs[i] @@ [_id |-> i],
                            weeks |-> WeeksOf(program_weeks, i)],
                           "page", "none")]
    /\ UNCHANGED <<store, nextId, now, started>>
    /\ UNCHANGED <<sessions, failed_logins>>

\* the $set of admin_program_toggle_active and of admin_program_toggle_home
ProgramToggleSet(op, p) ==
    IF op = "program_toggle_active"
    THEN [active |-> ~(IF "active" \in DOMAIN p THEN p.active ELSE TRUE)]
    ELSE [show_on_home |-> ~(IF "show_on_home" \in DOMAIN p THEN p.show_on_home ELSE FALSE)]

\* the identifiers the toggles are asked for: of the first and the last program,
\* of none
ToggleTargets == {1, 9, nextId}

\* POST /admin/programs/<id>/toggle-active and /toggle-home up to the find_one
ProgramTogglePost(w) ==
    /\ Free(w)
    /\ \E id \in ToggleTargets : \E op \in {"program_toggle_active", "program_toggle_home"} :
         reqs' = [reqs EXCEPT ![w] =
            IF id \notin DOMAIN programs
            THEN Req(op, "done", id, NoDoc, <<>>, NoDoc, "404", "none")
            ELSE Req(op, "update", id, NoDoc, <<>>, [p |-> programs[id]], "none", "none")]
    /\ started' = started + 1
    /\ UNCHANGED <<store, nextId, now>>
    /\ UNCHANGED <<sessions, failed_logins>>

\* db.programs.update_one({"_id": p["_id"]}, {"$set": ...}), with no try/except
\* around it
ProgramToggleUpdate(w) ==
    /\ reqs[w].op \in {"program_toggle_active", "program_toggle_home"}
    /\ reqs[w].pc = "update"
    /\ \E fault \in BOOLEAN :
         IF fault
         THEN /\ reqs' = [reqs EXCEPT ![w] = Uncaught(@, "StoreError")]
              /\ UNCHANGED programs
         ELSE /\ programs' = SetFields(programs, reqs[w].id,
                                       ProgramToggleSet(reqs[w].op, reqs[w].doc.p))
              /\ reqs' = [reqs EXCEPT ![w] = Done(@, "redirect", "updated")]
    /\ UNCHANGED <<workouts, styles, home_plans, program_weeks, program_items,
                   nextId, now, started>>
    /\ UNCHANGED <<sessions, failed_logins>>

\* nine programs the admin has created: the first eight active, the last one not,
\* all on the home page, the fourth and the seventh of one order and one time
PublicProgram(i) ==
    [title |-> <<"P", Digits[i + 1]>>, slug |-> <<"p", Digits[i + 1]>>,
     order |-> i % 3, active |-> (i # 9), show_on_home |-> TRUE,
     created_at |-> IF i = 7 THEN 1 ELSE i \div 4]

InitPublic ==
    /\ SignedIn
    /\ programs = [i \in 1..9 |-> PublicProgram(i)]
    /\ program_weeks = (11 :> [program_id |-> 1, week_number |-> 1, order |-> 0])
    /\ workouts = <<>> /\ styles = <<>> /\ home_plans = <<>> /\ program_items = <<>>
    /\ nextId = 31
    /\ now = 3
    /\ started = 0
    /\ reqs = [w \in Workers |-> Idle]

NextPublic ==
    \/ \E w \in Workers : Home(w)
    \/ \E w \in Workers : ProgramsIndex(w)
    \/ \E w \in Workers : ProgramDetail(w)
    \/ \E w \in Workers : ProgramTogglePost(w)
    \/ \E w \in Workers : ProgramToggleUpdate(w)
    \/ \E w \in Workers : Deliver(w)

SpecPublic == InitPublic /\ [][NextPublic]_vars

\* the list is by order ascending, programs of one order by created_at descending
FeaturedOrder(items) ==
    \A k \in 1..(Len(items) - 1) :
        \/ items[k].order < items[k + 1].order
        \/ /\ items[k].order = items[k + 1].order
           /\ items[k].created_at >= items[k + 1].created_at

\* the program is the one of the store and its active flag is not false
ShownActive(item) ==
    /\ item._id \in DOMAIN programs
    /\ programs[item._id].active # FALSE
    /\ item = programs[item._id] @@ [_id |-> item._id]

\* C27: the home page and the /programs list show no program whose active flag is
\* false, and /programs/<slug> of such a program is the 404 page; the featured
\* list of the home page has programs of show_on_home true only, the first six of
\* them by order ascending then created_at descending; the write of toggle-active
\* changes the active flag of its program and nothing else, the write of
\* toggle-home the show_on_home flag of its program and nothing else
C27_InactiveProgramsHidden ==
    [][\A w \in Workers :
         /\ (Ready(w) /\ reqs'[w].op = "home") =>
               LET items == reqs'[w].doc.items IN
               /\ \A k \in 1..Len(items) :
                     ShownActive(items[k]) /\ items[k].show_on_home = TRUE
               /\ \A j, k \in 1..Len(items) : items[j]._id = items[k]._id => j = k
               /\ Len(items) =
                     Min(FeaturedLimit,
                         Cardinality({i \in DOMAIN programs :
                            programs[i].active # FALSE /\ programs[i].show_on_home}))
               /\ FeaturedOrder(items)
               /\ \A i \in DOMAIN programs :
                     (/\ programs[i].active # FALSE /\ programs[i].show_on_home
                      /\ \A k \in 1..Len(items) : items[k]._id # i)
                     => \A k \in 1..Len(items) :
                           FeaturedOrder(<<items[k], programs[i]>>)
         /\ (Ready(w) /\ reqs'[w].op = "programs_index") =>
               LET items == reqs'[w].doc.items IN
               /\ \A k \in 1..Len(items) : ShownActive(items[k])
               /\ Len(items) =
                     Cardinality({i \in DOMAIN programs : programs[i].active # FALSE})
         /\ (Ready(w) /\ reqs'[w].op = "program_detail") =>
               IF \E i \in DOMAIN programs :
                     programs[i].slug = reqs'[w].slug /\ programs[i].active # FALSE
               THEN reqs'[w].resp = "page" /\ ShownActive(reqs'[w].doc.program)
               ELSE reqs'[w].resp = "404"
         /\ (/\ reqs[w].op \in {"program_toggle_active", "program_toggle_home"}
             /\ reqs[w].pc = "update" /\ reqs'[w].resp = "redirect") =>
               LET id == reqs[w].id
                   f  == IF reqs[w].op = "program_toggle_active"
                         THEN "active" ELSE "show_on_home"
               IN  /\ programs'[id][f] = ~reqs[w].doc.p[f]
                   /\ \A g \in DOMAIN programs[id] \ {f} :
                         programs'[id][g] = programs[id][g]
                   /\ \A j \in DOMAIN programs \ {id} : programs'[j] = programs[j]
                   /\ DOMAIN programs' = DOMAIN programs
      ]_vars

\* the first program was deactivated by a toggle and is still marked for the home
\* page: the home page shows six of the seven programs that are active and
\* marked, not the first and not the last
C27_Witness ==
    \E w \in Workers :
        /\ reqs[w].op = "home" /\ Len(reqs[w].doc.items) = FeaturedLimit
        /\ programs[1].active = FALSE /\ programs[1].show_on_home = TRUE
        /\ programs[9].active = FALSE /\ programs[9].show_on_home = TRUE
        /\ Cardinality({i \in DOMAIN programs :
              programs[i].active /\ programs[i].show_on_home}) = FeaturedLimit + 1
        /\ \A k \in 1..Len(reqs[w].doc.items) : reqs[w].doc.items[k]._id \notin {1, 9}

====
